---- MODULE Spec2Model ----
(***************************************************************************)
(* Transcript parser and comparative analytics of the experiment scripts   *)
(* under src/experiments: parse_output scans the captured standard output  *)
(* of one simulation line by line into a statistics record, and            *)
(* analyze_results compares the record of the treatment run with the one   *)
(* of the baseline run.                                                    *)
(*                                                                         *)
(* Text.  A transcript is None or a sequence of lines (what                *)
(* output.split('\n') yields), each line a string.  Fragments(line) reads  *)
(* a line as a sequence of fragments                                       *)
(*   [qual, label, text, sep, text2, unit]                                 *)
(* standing for the characters  qual ++ label ++ text ++ sep ++ text2 ++   *)
(* unit ; text and text2 are sequences of one-character strings, so that   *)
(* the character classes of the regular expressions and the conversions    *)
(* float() and int() are computed on the characters.  Fragments of one     *)
(* line are separated by a blank.                                          *)
(*                                                                         *)
(* Numbers.  A number is a reduced fraction <<n, d>> with d > 0 (Python's  *)
(* floats and ints taken as exact reals); NaN is <<0, 0>> and Python's     *)
(* None in a numeric field is <<>>.  A standard deviation that is not      *)
(* rational is kept as <<n, d, 2>>, the square root of n/d.                *)
(***************************************************************************)
EXTENDS Integers, Sequences, FiniteSets, TLC

VARIABLES
    variant,   \* which script's parse_output / analyze_results is running
    group,     \* which family of report blocks the simulators print
    output,    \* run -> None | transcript (result of run_simulation)
    pc,        \* position of the script's main loop body
    scan,      \* locals of the parse_output call in progress
    result,    \* run -> outcome of parse_output
    fault,     \* where the scan stood when float() raised (line, field)
    tables,    \* outcome of analyze_results
    stat       \* locals of one statistic computed on its own (MOS, fairness)

vars == <<variant, group, output, pc, scan, result, fault, tables, stat>>

None == <<>>
NaN == <<0, 0>>
Runs == {"treatment", "baseline"}

-----------------------------------------------------------------------------
(* Exact arithmetic standing for Python's float arithmetic.                *)

Abs(n) == IF n < 0 THEN -n ELSE n

RECURSIVE GCD(_, _)
GCD(a, b) == IF b = 0 THEN a ELSE GCD(b, a % b)

Frac(n, d) ==
    LET g == GCD(Abs(n), Abs(d))
        s == IF d < 0 THEN -1 ELSE 1
    IN  <<(s * n) \div g, (s * d) \div g>>

Zero == <<0, 1>>
Num(n) == <<n, 1>>
\* sums and products cancel common factors first, to keep the integers small
Add(a, b) ==
    LET g == GCD(a[2], b[2])
    IN  Frac(a[1] * (b[2] \div g) + b[1] * (a[2] \div g), (a[2] \div g) * b[2])
Neg(a) == <<-a[1], a[2]>>
Sub(a, b) == Add(a, Neg(b))
Mul(a, b) ==
    LET x == Frac(a[1], b[2])
        y == Frac(b[1], a[2])
    IN  <<x[1] * y[1], x[2] * y[2]>>
Div(a, b) == Mul(a, Frac(b[2], b[1]))
Less(a, b) ==
    LET g == GCD(a[2], b[2])
    IN  a[1] * (b[2] \div g) < b[1] * (a[2] \div g)
Max(a, b) == IF Less(a, b) THEN b ELSE a

RECURSIVE Pow10(_)
Pow10(k) == IF k = 0 THEN 1 ELSE 10 * Pow10(k - 1)

RECURSIVE Sum(_)
Sum(s) == IF s = <<>> THEN Zero ELSE Add(Head(s), Sum(Tail(s)))

-----------------------------------------------------------------------------
(* Characters, and Python's float() and int() on a captured text.          *)

Digits == {"0", "1", "2", "3", "4", "5", "6", "7", "8", "9"}

DigitVal(c) ==
    CASE c = "0" -> 0 [] c = "1" -> 1 [] c = "2" -> 2 [] c = "3" -> 3
      [] c = "4" -> 4 [] c = "5" -> 5 [] c = "6" -> 6 [] c = "7" -> 7
      [] c = "8" -> 8 [] c = "9" -> 9

RECURSIVE DigitsValue(_, _)
DigitsValue(t, acc) ==
    IF t = <<>> THEN acc ELSE DigitsValue(Tail(t), 10 * acc + DigitVal(Head(t)))

Positions(t, c) == {i \in 1..Len(t) : t[i] = c}
Unsigned(t) == IF t # <<>> /\ Head(t) = "-" THEN Tail(t) ELSE t
WithoutDot(t) == SelectSeq(t, LAMBDA c : c # ".")

\* float(): [-] (digits [. [digits]] | . digits) [e [-] digits]
ValueError(t) == [type |-> "ValueError", text |-> t]

FloatMantissaOk(m) ==
    LET u == Unsigned(m)
    IN  /\ \A i \in 1..Len(u) : u[i] \in Digits \cup {"."}
        /\ Cardinality(Positions(u, ".")) <= 1
        /\ WithoutDot(u) # <<>>

FloatExponentOk(x) ==
    LET u == Unsigned(x)
    IN  u # <<>> /\ \A i \in 1..Len(u) : u[i] \in Digits

FloatOk(t) ==
    LET es == Positions(t, "e")
    IN  IF es = {} THEN FloatMantissaOk(t)
        ELSE /\ Cardinality(es) = 1
             /\ LET e == CHOOSE i \in es : TRUE
                IN  /\ FloatMantissaOk(SubSeq(t, 1, e - 1))
                    /\ FloatExponentOk(SubSeq(t, e + 1, Len(t)))

MantissaValue(m) ==
    LET u == Unsigned(m)
        dots == Positions(u, ".")
        decimals == IF dots = {} THEN 0 ELSE Len(u) - (CHOOSE i \in dots : TRUE)
        mag == Frac(DigitsValue(WithoutDot(u), 0), Pow10(decimals))
    IN  IF u # m THEN Neg(mag) ELSE mag

FloatValue(t) ==
    LET es == Positions(t, "e")
    IN  IF es = {} THEN MantissaValue(t)
        ELSE LET e == CHOOSE i \in es : TRUE
                 x == SubSeq(t, e + 1, Len(t))
                 k == DigitsValue(Unsigned(x), 0)
                 m == MantissaValue(SubSeq(t, 1, e - 1))
             IN  IF Unsigned(x) # x THEN Div(m, Num(Pow10(k)))
                 ELSE Mul(m, Num(Pow10(k)))

\* float(s): the value, or the ValueError it raises
float(t) ==
    IF FloatOk(t) THEN [raised |-> FALSE, value |-> FloatValue(t)]
    ELSE [raised |-> TRUE, exc |-> ValueError(t)]

IntOk(t) == Unsigned(t) # <<>> /\ \A i \in 1..Len(Unsigned(t)) : Unsigned(t)[i] \in Digits

\* int(s): the value, or the ValueError it raises
int(t) ==
    IF ~IntOk(t) THEN [raised |-> TRUE, exc |-> ValueError(t)]
    ELSE [raised |-> FALSE,
          value |-> IF Unsigned(t) # t THEN Num(-DigitsValue(Unsigned(t), 0))
                    ELSE Num(DigitsValue(t, 0))]

-----------------------------------------------------------------------------
(* Lines and regular expressions.                                          *)

\* the characters  q ++ l ++ t ++ u , e.g. "TCP " ++ "RTT: " ++ 12 ++ " ms"
Frag(q, l, t, u) ==
    [qual |-> q, label |-> l, text |-> t, sep |-> "", text2 |-> <<>>, unit |-> u]

\* the characters  l ++ t ++ s ++ t2 , e.g. "Quality changed: " 1 " -> " 2
Frag2(l, t, s, t2) ==
    [qual |-> "", label |-> l, text |-> t, sep |-> s, text2 |-> t2, unit |-> ""]

\* the characters of the lines the simulators print
Fragments(line) ==
    CASE line = "" -> <<>>
      [] line = "Simulation finished" -> <<Frag("", "Simulation finished", <<>>, "")>>
      [] line = "Throughput: 10 Mbps" -> <<Frag("", "Throughput: ", <<"1", "0">>, " Mbps")>>
      [] line = "Throughput: 8 Mbps" -> <<Frag("", "Throughput: ", <<"8">>, " Mbps")>>
      [] line = "Throughput: 0 Mbps" -> <<Frag("", "Throughput: ", <<"0">>, " Mbps")>>
      [] line = "Throughput: 1.2.3 Mbps" ->
           <<Frag("", "Throughput: ", <<"1", ".", "2", ".", "3">>, " Mbps")>>
      [] line = "Mean delay: 0.04 seconds" ->
           <<Frag("", "Mean delay: ", <<"0", ".", "0", "4">>, " seconds")>>
      [] line = "Mean delay: 0.05 seconds" ->
           <<Frag("", "Mean delay: ", <<"0", ".", "0", "5">>, " seconds")>>
      [] line = "Mean delay: -0.05 seconds" ->
           <<Frag("", "Mean delay: ", <<"-", "0", ".", "0", "5">>, " seconds")>>
      [] line = "Mean delay: -6e-2 seconds" ->
           <<Frag("", "Mean delay: ", <<"-", "6", "e", "-", "2">>, " seconds")>>
      [] line = "Mean delay: e- seconds" ->
           <<Frag("", "Mean delay: ", <<"e", "-">>, " seconds")>>
      [] line = "Mean jitter: 0.01 seconds" ->
           <<Frag("", "Mean jitter: ", <<"0", ".", "0", "1">>, " seconds")>>
      [] line = "Packet loss: 3%" -> <<Frag("", "Packet loss: ", <<"3">>, "%")>>
      [] line = "Path 1:" -> <<Frag("", "Path ", <<"1">>, ":")>>
      [] line = "Path 2:" -> <<Frag("", "Path ", <<"2">>, ":")>>
      [] line = "Rate: 5 Mbps" -> <<Frag("", "Rate: ", <<"5">>, " Mbps")>>
      [] line = "RTT: 20 ms" -> <<Frag("", "RTT: ", <<"2", "0">>, " ms")>>
      [] line = "TCP RTT: 30 ms" -> <<Frag("TCP ", "RTT: ", <<"3", "0">>, " ms")>>
      [] line = "Packets sent: 10" -> <<Frag("", "Packets sent: ", <<"1", "0">>, "")>>
      [] line = "Packets acked: 9" -> <<Frag("", "Packets acked: ", <<"9">>, "")>>
      [] line = "Weight: 0.6" -> <<Frag("", "Weight: ", <<"0", ".", "6">>, "")>>
      [] line = "Weight: 0.2" -> <<Frag("", "Weight: ", <<"0", ".", "2">>, "")>>
      [] line = "TCP congestion window: 10" ->
           <<Frag("TCP ", "congestion window: ", <<"1", "0">>, "")>>
      [] line = "TCP Retransmissions: 2" ->
           <<Frag("TCP ", "Retransmissions: ", <<"2">>, "")>>
      [] line = "TCP Retransmissions: 0" ->
           <<Frag("TCP ", "Retransmissions: ", <<"0">>, "")>>
      [] line = "network efficiency: 90%" ->
           <<Frag("", "network efficiency: ", <<"9", "0">>, "%")>>
      [] line = "network efficiency: 80%" ->
           <<Frag("", "network efficiency: ", <<"8", "0">>, "%")>>
      [] line = "Energy efficiency: 90%" ->
           <<Frag("", "Energy efficiency: ", <<"9", "0">>, "%")>>
      [] line = "Path switch: from path 1 to path 2" ->
           <<Frag2("Path switch: from path ", <<"1">>, " to path ", <<"2">>)>>
      [] line = "Quality changed: 1.5 -> 2.5" ->
           <<Frag2("Quality changed: ", <<"1", ".", "5">>, " -> ", <<"2", ".", "5">>)>>
      [] line = "Average buffer length: 50 ms" ->
           <<Frag("", "Average buffer length: ", <<"5", "0">>, " ms")>>
      [] line = "Average buffer length: 40 ms" ->
           <<Frag("", "Average buffer length: ", <<"4", "0">>, " ms")>>
      [] line = "Buffer underruns: 2" -> <<Frag("", "Buffer underruns: ", <<"2">>, "")>>
      [] line = "Buffer underruns: 0" -> <<Frag("", "Buffer underruns: ", <<"0">>, "")>>
      [] line = "Buffer stalls: 1" -> <<Frag("", "Buffer stalls: ", <<"1">>, "")>>
      [] line = "Buffer stalls: 3" -> <<Frag("", "Buffer stalls: ", <<"3">>, "")>>
      [] line = "NADA packet loss: 3%" -> <<Frag("NADA ", "packet loss: ", <<"3">>, "%")>>
      [] line = "TCP packet loss: 4%" -> <<Frag("TCP ", "packet loss: ", <<"4">>, "%")>>
      [] line = "NADA packet loss: 3% Packet loss: 4%" ->
           <<Frag("NADA ", "packet loss: ", <<"3">>, "%"),
             Frag("", "Packet loss: ", <<"4">>, "%")>>
      [] line = "WebRTC packet loss: 3% Packet loss: 4%" ->
           <<Frag("WebRTC ", "packet loss: ", <<"3">>, "%"),
             Frag("", "Packet loss: ", <<"4">>, "%")>>
      [] line = "NADA Rx Bytes: 7500000" ->
           <<Frag("NADA ", "Rx Bytes: ", <<"7", "5", "0", "0", "0", "0", "0">>, "")>>
      [] line = "TCP Rx Bytes: 3750000" ->
           <<Frag("TCP ", "Rx Bytes: ", <<"3", "7", "5", "0", "0", "0", "0">>, "")>>
      [] line = "Simulation time: 30 seconds" ->
           <<Frag("", "Simulation time: ", <<"3", "0">>, " seconds")>>
      [] line = "Simulation time: 0 seconds" ->
           <<Frag("", "Simulation time: ", <<"0">>, " seconds")>>
      [] line = "Flow 1 (10.1.1.1 -> 10.1.2.2)" ->
           <<Frag("", "Flow ", <<"1">>, " (10.1.1.1 -> 10.1.2.2)")>>
      [] line = "Flow 2 (10.1.1.2 -> 10.1.2.2) [WebRTC]" ->
           <<Frag("", "Flow ", <<"2">>, " (10.1.1.2 -> 10.1.2.2) [WebRTC]")>>
      [] line = "Tx Packets: 100" -> <<Frag("", "Tx Packets: ", <<"1", "0", "0">>, "")>>
      [] line = "Rx Packets: 90" -> <<Frag("", "Rx Packets: ", <<"9", "0">>, "")>>
      [] line = "Total Tx Packets: 300" ->
           <<Frag("Total ", "Tx Packets: ", <<"3", "0", "0">>, "")>>
      [] line = "Total Rx Bytes: 5000" ->
           <<Frag("Total ", "Rx Bytes: ", <<"5", "0", "0", "0">>, "")>>
      [] line = "WebRTC Frame Statistics:" ->
           <<Frag("", "WebRTC Frame Statistics:", <<>>, "")>>
      [] line = "Key frames sent: 10" ->
           <<Frag("", "Key frames sent: ", <<"1", "0">>, "")>>
      [] line = "Key frames sent: 12" ->
           <<Frag("", "Key frames sent: ", <<"1", "2">>, "")>>
      [] line = "Delta frames acked: 7" ->
           <<Frag("", "Delta frames acked: ", <<"7">>, "")>>
      [] line = "Key frame loss: 2.5%" ->
           <<Frag("", "Key frame loss: ", <<"2", ".", "5">>, "%")>>

\* re.compile(quals label (cls+) unit): quals = {} when the pattern starts
\* with the label (search() then accepts any characters before it); cls = {}
\* when the pattern is the label alone, without a group
Re(quals, l, cls, u) ==
    [quals |-> quals, label |-> l, cls |-> cls, sep |-> "", cls2 |-> {}, unit |-> u]

\* re.compile(label (cls+) sep (cls2+))
Re2(l, cls, s, cls2) ==
    [quals |-> {}, label |-> l, cls |-> cls, sep |-> s, cls2 |-> cls2, unit |-> ""]

\* the longest prefix of t made of characters of cls: what (cls+) takes
RECURSIVE ClassPrefix(_, _)
ClassPrefix(t, cls) ==
    IF t = <<>> \/ Head(t) \notin cls THEN <<>>
    ELSE <<Head(t)>> \o ClassPrefix(Tail(t), cls)

\* the pattern matches at this fragment only if nothing precedes its label
MatchesUnqualified(re, f) ==
    LET g1 == ClassPrefix(f.text, re.cls)
    IN  /\ f.label = re.label
        /\ IF re.quals = {} THEN f.qual = "" ELSE f.qual \in re.quals
        /\ IF re.cls2 # {}
           THEN /\ g1 # <<>> /\ g1 = f.text /\ f.sep = re.sep
                /\ ClassPrefix(f.text2, re.cls2) # <<>>
           ELSE /\ re.cls = {} \/ g1 # <<>>
                /\ re.unit = "" \/ (g1 = f.text /\ f.sep = "" /\ f.unit = re.unit)

\* the pattern matches at this fragment
Matches(re, f) ==
    LET g1 == ClassPrefix(f.text, re.cls)
    IN  /\ f.label = re.label
        /\ re.quals = {} \/ f.qual \in re.quals
        /\ IF re.cls2 # {}
           THEN /\ g1 # <<>> /\ g1 = f.text /\ f.sep = re.sep
                /\ ClassPrefix(f.text2, re.cls2) # <<>>
           ELSE /\ re.cls = {} \/ g1 # <<>>
                /\ re.unit = "" \/ (g1 = f.text /\ f.sep = "" /\ f.unit = re.unit)

\* the least element of a set of positions, 0 for the empty set
Leftmost(at) == IF at = {} THEN 0 ELSE CHOOSE j \in at : \A k \in at : j <= k

\* the match object for the fragment at position i: its groups; None for 0
MatchAt(re, frags, i) ==
    IF i = 0 THEN [found |-> FALSE, group1 |-> <<>>, group2 |-> <<>>]
    ELSE [found |-> TRUE,
          group1 |-> ClassPrefix(frags[i].text, re.cls),
          group2 |-> ClassPrefix(frags[i].text2, re.cls2)]

\* re.search(line) on the fragments of the line: the leftmost match and
\* its groups, or no match
search(re, frags) ==
    MatchAt(re, frags, Leftmost({i \in 1..Len(frags) : Matches(re, frags[i])}))

\* line.startswith(q ++ l), on the fragments of the line
startswith(frags, q, l) == frags # <<>> /\ frags[1].qual = q /\ frags[1].label = l

Num09 == Digits \cup {"."}
NumE == Digits \cup {".", "e", "-"}

Simple == "compare-simple-nada"
Mp == "compare-mp-simple-nada"
TcpMp == "tcp-compare-mp-nada"
TcpSimple == "tcp-compare-simple-nada"
Competing == "mp-competing-sources"

\* the compiled patterns of parse_output
Pattern(v, name) ==
    CASE name = "throughput_re" -> Re({}, "Throughput: ", Num09, " Mbps")
      [] name = "delay_re" -> Re({}, "Mean delay: ", NumE, " seconds")
      [] name = "loss_re" -> Re({}, "Packet loss: ", Num09, "%")
      [] name = "jitter_re" -> Re({}, "Mean jitter: ", NumE, " seconds")
      [] name = "path_re" -> Re({}, "Path ", Digits, ":")
      [] name = "path_rate_re" -> Re({}, "Rate: ", Num09, " Mbps")
      [] name = "path_rtt_re" -> Re({}, "RTT: ", Num09, " ms")
      [] name = "path_packets_sent_re" -> Re({}, "Packets sent: ", Digits, "")
      [] name = "path_packets_acked_re" -> Re({}, "Packets acked: ", Digits, "")
      [] name = "path_weight_re" -> Re({}, "Weight: ", Num09, "")
      [] name = "path_switch_re" ->
           Re2("Path switch: from path ", Digits, " to path ", Digits)
      [] name = "quality_change_re" -> Re2("Quality changed: ", Num09, " -> ", Num09)
      [] name = "energy_metric_re" ->
           IF v = Mp THEN Re({}, "Energy efficiency: ", Num09, "%")
           ELSE Re({}, "network efficiency: ", Num09, "%")
      [] name = "tcp_cwnd_re" -> Re({"TCP "}, "congestion window: ", Digits, "")
      [] name = "tcp_rto_re" -> Re({"TCP "}, "RTO: ", Num09, " ms")
      [] name = "tcp_rtt_re" -> Re({"TCP "}, "RTT: ", Num09, " ms")
      [] name = "tcp_retrans_re" -> Re({"TCP "}, "Retransmissions: ", Digits, "")
      [] name = "buffer_length_re" -> Re({}, "Average buffer length: ", Num09, " ms")
      [] name = "buffer_underruns_re" -> Re({}, "Buffer underruns: ", Digits, "")
      [] name = "avg_buffer_length_re" -> Re({}, "Average buffer length: ", Num09, " ms")
      [] name = "buffer_stalls_re" -> Re({}, "Buffer stalls: ", Digits, "")
      [] name = "buffer_variance_re" -> Re({}, "Buffer variance: ", Num09, "")
      [] name = "nada_tx_packets_re" -> Re({"NADA ", "WebRTC "}, "Tx Packets: ", Digits, "")
      [] name = "nada_rx_packets_re" -> Re({"NADA ", "WebRTC "}, "Rx Packets: ", Digits, "")
      [] name = "nada_tx_bytes_re" -> Re({"NADA ", "WebRTC "}, "Tx Bytes: ", Digits, "")
      [] name = "nada_rx_bytes_re" -> Re({"NADA ", "WebRTC "}, "Rx Bytes: ", Digits, "")
      [] name = "nada_loss_re" -> Re({"NADA ", "WebRTC "}, "packet loss: ", Num09, "%")
      [] name = "nada_efficiency_re" -> Re({"NADA ", "WebRTC "}, "efficiency: ", Num09, "%")
      [] name = "tcp_tx_packets_re" -> Re({"TCP "}, "Tx Packets: ", Digits, "")
      [] name = "tcp_rx_packets_re" -> Re({"TCP "}, "Rx Packets: ", Digits, "")
      [] name = "tcp_tx_bytes_re" -> Re({"TCP "}, "Tx Bytes: ", Digits, "")
      [] name = "tcp_rx_bytes_re" -> Re({"TCP "}, "Rx Bytes: ", Digits, "")
      [] name = "tcp_loss_re" -> Re({"TCP "}, "packet loss: ", Num09, "%")
      [] name = "tcp_efficiency_re" -> Re({"TCP "}, "efficiency: ", Num09, "%")
      [] name = "simulation_time_re" -> Re({}, "Simulation time: ", Digits, " seconds")
      [] name = "tx_re" -> Re({}, "Tx Packets: ", Digits, "")
      [] name = "rx_re" -> Re({}, "Rx Packets: ", Digits, "")
      [] name = "tx_bytes_re" -> Re({}, "Tx Bytes: ", Digits, "")
      [] name = "rx_bytes_re" -> Re({}, "Rx Bytes: ", Digits, "")
      [] name = "total_tx_match" -> Re({"Total "}, "Tx Packets: ", Digits, "")
      [] name = "total_rx_match" -> Re({"Total "}, "Rx Packets: ", Digits, "")
      [] name = "total_tx_bytes_match" -> Re({"Total "}, "Tx Bytes: ", Digits, "")
      [] name = "total_rx_bytes_match" -> Re({"Total "}, "Rx Bytes: ", Digits, "")
      [] name = "overall_loss_match" -> Re({"Overall "}, "packet loss: ", Num09, "%")
      [] name = "efficiency_re" -> Re({"Average "}, "network efficiency: ", Num09, "%")
      [] name = "frame_stats_re" -> Re({}, "WebRTC Frame Statistics:", {}, "")
      [] name = "key_frames_sent_re" -> Re({}, "Key frames sent: ", Digits, "")
      [] name = "key_frames_acked_re" -> Re({}, "Key frames acked: ", Digits, "")
      [] name = "key_frame_loss_re" -> Re({}, "Key frame loss: ", Num09, "%")
      [] name = "delta_frames_sent_re" -> Re({}, "Delta frames sent: ", Digits, "")
      [] name = "delta_frames_acked_re" -> Re({}, "Delta frames acked: ", Digits, "")
      [] name = "delta_frame_loss_re" -> Re({}, "Delta frame loss: ", Num09, "%")

-----------------------------------------------------------------------------
(* parse_output: the statistics record and the scan of one line.           *)

\* stats = {...}: the record parse_output starts from
InitialStats(v) ==
    LET core == [throughput |-> <<>>, delay |-> <<>>, loss |-> <<>>, jitter |-> <<>>]
    IN  CASE v = Simple -> core
          [] v = Mp ->
               [throughput |-> <<>>, delay |-> <<>>, loss |-> <<>>, jitter |-> <<>>,
                paths |-> <<>>, path_switches |-> <<>>, quality_changes |-> <<>>,
                energy_metrics |-> <<>>]
          [] v = TcpMp ->
               [throughput |-> <<>>, delay |-> <<>>, loss |-> <<>>, jitter |-> <<>>,
                paths |-> <<>>,
                tcp_stats |-> [cwnd |-> <<>>, rto |-> <<>>, rtt |-> <<>>, retrans |-> <<>>],
                energy_metrics |-> <<>>, path_switches |-> <<>>,
                quality_changes |-> <<>>,
                buffer_stats |-> [length |-> <<>>, underruns |-> Zero, average_ms |-> Zero]]
          [] v = TcpSimple ->
               [throughput |-> <<>>, delay |-> <<>>, loss |-> <<>>, jitter |-> <<>>,
                nada_tx_packets |-> None, nada_rx_packets |-> None,
                nada_tx_bytes |-> None, nada_rx_bytes |-> None, nada_loss |-> None,
                nada_efficiency |-> None, nada_throughput |-> None,
                tcp_tx_packets |-> None, tcp_rx_packets |-> None,
                tcp_tx_bytes |-> None, tcp_rx_bytes |-> None, tcp_loss |-> None,
                tcp_efficiency |-> None, tcp_throughput |-> None,
                buffer_underruns |-> None, avg_buffer_length |-> None,
                buffer_stalls |-> None, buffer_variance |-> None]
          [] v = Competing ->
               [throughput |-> <<>>, delay |-> <<>>, loss |-> <<>>, jitter |-> <<>>,
                paths |-> <<>>,
                webrtc |-> [key_frames_sent |-> Zero, key_frames_acked |-> Zero,
                            key_frame_loss |-> Zero, delta_frames_sent |-> Zero,
                            delta_frames_acked |-> Zero, delta_frame_loss |-> Zero]]

\* stats['paths'][current_path] = {...}: paths is a dict, kept here as the
\* sequence of its entries in insertion order
NewPath(v, id) ==
    IF v = TcpMp
    THEN [id |-> id, rate |-> <<>>, rtt |-> <<>>, sent |-> Zero, acked |-> Zero,
          weight |-> Zero]
    ELSE [id |-> id, rate |-> <<>>, rtt |-> <<>>, sent |-> Zero, acked |-> Zero]

\* "if current_path not in stats['paths']" always true: every header
\* creates a record
NoPathIds(paths) == {}

PathIds(paths) == {paths[i].id : i \in 1..Len(paths)}
\* every per-path write lands in the record created first
FirstPath(paths, id) == 1

PathIndex(paths, id) == CHOOSE i \in 1..Len(paths) : paths[i].id = id

\* one "match = x_re.search(line); if match: ...; continue" of the loop body:
\* when = the condition besides the match, act = what the body does
Rule(re, when, act, sub, field, conv) ==
    [re |-> re, when |-> when, act |-> act, sub |-> sub, field |-> field, conv |-> conv]

CoreRules(lossWhen) ==
    << Rule("throughput_re", "always", "append", "", "throughput", "float"),
       Rule("delay_re", "always", "append", "", "delay", "float"),
       Rule("loss_re", lossWhen, "append", "", "loss", "float"),
       Rule("jitter_re", "always", "append", "", "jitter", "float") >>

PathRules ==
    << Rule("path_re", "always", "path_header", "", "current_path", "int"),
       Rule("path_rate_re", "path", "path_append", "", "rate", "float"),
       Rule("path_rtt_re", "path", "path_append", "", "rtt", "float"),
       Rule("path_packets_sent_re", "path", "path_set", "", "sent", "int"),
       Rule("path_packets_acked_re", "path", "path_set", "", "acked", "int") >>

\* the body of "for line in lines", top to bottom; loop = which of the
\* loops over lines of tcp-compare-simple-nada (1 elsewhere)
Rules(v, loop) ==
    CASE v = Simple -> CoreRules("always")
      [] v = Mp ->
           CoreRules("always") \o PathRules \o
           << Rule("path_switch_re", "always", "pair", "", "path_switches", "int"),
              Rule("quality_change_re", "always", "pair", "", "quality_changes", "float"),
              Rule("energy_metric_re", "always", "append", "", "energy_metrics", "float") >>
      [] v = TcpMp ->
           CoreRules("always") \o PathRules \o
           << Rule("path_weight_re", "path", "path_set", "", "weight", "float"),
              Rule("tcp_cwnd_re", "always", "append_in", "tcp_stats", "cwnd", "int"),
              Rule("tcp_rto_re", "always", "append_in", "tcp_stats", "rto", "float"),
              Rule("tcp_rtt_re", "always", "append_in", "tcp_stats", "rtt", "float"),
              Rule("tcp_retrans_re", "always", "append_in", "tcp_stats", "retrans", "int"),
              Rule("energy_metric_re", "always", "append", "", "energy_metrics", "float"),
              Rule("path_switch_re", "always", "pair", "", "path_switches", "int"),
              Rule("quality_change_re", "always", "pair", "", "quality_changes", "float"),
              Rule("buffer_length_re", "always", "buffer_length", "buffer_stats",
                   "average_ms", "float"),
              Rule("buffer_underruns_re", "always", "set_in", "buffer_stats",
                   "underruns", "int") >>
      [] v = TcpSimple /\ loop = 1 ->
           CoreRules("unqualified") \o
           << Rule("buffer_underruns_re", "always", "set", "", "buffer_underruns", "int"),
              Rule("avg_buffer_length_re", "always", "set", "", "avg_buffer_length", "float"),
              Rule("buffer_stalls_re", "always", "set", "", "buffer_stalls", "int"),
              Rule("buffer_variance_re", "always", "set", "", "buffer_variance", "float") >>
      [] v = TcpSimple /\ loop = 2 ->
           << Rule("nada_tx_packets_re", "always", "set", "", "nada_tx_packets", "int"),
              Rule("nada_rx_packets_re", "always", "set", "", "nada_rx_packets", "int"),
              Rule("nada_tx_bytes_re", "always", "set", "", "nada_tx_bytes", "int"),
              Rule("nada_rx_bytes_re", "always", "set", "", "nada_rx_bytes", "int"),
              Rule("nada_loss_re", "always", "set", "", "nada_loss", "float"),
              Rule("nada_efficiency_re", "always", "set", "", "nada_efficiency", "float"),
              Rule("tcp_tx_packets_re", "always", "set", "", "tcp_tx_packets", "int"),
              Rule("tcp_rx_packets_re", "always", "set", "", "tcp_rx_packets", "int"),
              Rule("tcp_tx_bytes_re", "always", "set", "", "tcp_tx_bytes", "int"),
              Rule("tcp_rx_bytes_re", "always", "set", "", "tcp_rx_bytes", "int"),
              Rule("tcp_loss_re", "always", "set", "", "tcp_loss", "float"),
              Rule("tcp_efficiency_re", "always", "set", "", "tcp_efficiency", "float") >>
      [] v = TcpSimple /\ loop = 3 ->
           << Rule("simulation_time_re", "always", "sim_time", "", "simulation_time", "int") >>
      [] v = Competing ->
           CoreRules("always") \o
           << Rule("frame_stats_re", "always", "frame_header", "", "in_frame_stats", "int"),
              Rule("key_frames_sent_re", "frames", "set_in", "webrtc",
                   "key_frames_sent", "int"),
              Rule("key_frames_acked_re", "frames", "set_in", "webrtc",
                   "key_frames_acked", "int"),
              Rule("key_frame_loss_re", "frames", "set_in", "webrtc",
                   "key_frame_loss", "float"),
              Rule("delta_frames_sent_re", "frames", "set_in", "webrtc",
                   "delta_frames_sent", "int"),
              Rule("delta_frames_acked_re", "frames", "set_in", "webrtc",
                   "delta_frames_acked", "int"),
              Rule("delta_frame_loss_re", "frames", "set_in", "webrtc",
                   "delta_frame_loss", "float") >> \o PathRules


\* the frame lines taken outside the frame statistics section too
TakenInAnySection(v, rule, loc, frags) ==
    /\ search(Pattern(v, rule.re), frags).found
    /\ rule.when = "path" => loc.current_path # None
    /\ rule.when = "unqualified" =>
           /\ ~startswith(frags, "NADA ", "packet loss: ")
           /\ ~startswith(frags, "TCP ", "packet loss: ")

\* the condition of one "if" of the loop body
Taken(v, rule, loc, frags) ==
    /\ search(Pattern(v, rule.re), frags).found
    /\ rule.when = "path" => loc.current_path # None
    /\ rule.when = "frames" => loc.in_frame_stats
    /\ rule.when = "unqualified" =>
           /\ ~startswith(frags, "NADA ", "packet loss: ")
           /\ ~startswith(frags, "TCP ", "packet loss: ")

NoExc == [type |-> "", text |-> <<>>]

\* every capture converted with int(), also where the source calls float()
ConvertInt(conv, t) == int(t)

\* float(match.group(n)) or int(match.group(n))
Convert(conv, t) == IF conv = "float" THEN float(t) ELSE int(t)

\* current_path set and no record created
PathHeaderWithoutRecord(v, loc, id) == [loc EXCEPT !.current_path = <<id>>]

\* "current_path = int(path_match.group(1))", and a record for the id if
\* stats['paths'] has none
PathHeader(v, loc, id) ==
    [loc EXCEPT !.current_path = <<id>>,
                !.stats.paths = IF id \in PathIds(@) THEN @
                                ELSE Append(@, NewPath(v, id))]

\* the statements of the body of the "if" that was taken, c1 and c2 being
\* the converted groups: the locals after it, or the exception raised
Store(v, rule, loc, c1, c2) ==
    LET ok(newloc) == [raised |-> FALSE, loc |-> newloc, exc |-> NoExc, field |-> ""]
        cur == PathIndex(loc.stats.paths, loc.current_path[1])
    IN  IF rule.act = "frame_header" THEN ok([loc EXCEPT !.in_frame_stats = TRUE])
        ELSE IF c1.raised
        THEN [raised |-> TRUE, loc |-> loc, exc |-> c1.exc, field |-> rule.field]
        ELSE CASE rule.act = "append" ->
                    ok([loc EXCEPT !.stats[rule.field] = Append(@, c1.value)])
               [] rule.act = "append_in" ->
                    ok([loc EXCEPT !.stats[rule.sub][rule.field] = Append(@, c1.value)])
               [] rule.act = "set" ->
                    ok([loc EXCEPT !.stats[rule.field] = c1.value])
               [] rule.act = "set_in" ->
                    ok([loc EXCEPT !.stats[rule.sub][rule.field] = c1.value])
               [] rule.act = "buffer_length" ->
                    ok([loc EXCEPT !.stats.buffer_stats.average_ms = c1.value,
                                   !.stats.buffer_stats.length = Append(@, c1.value)])
               [] rule.act = "path_header" -> ok(PathHeader(v, loc, c1.value[1]))
               [] rule.act = "path_append" ->
                    ok([loc EXCEPT !.stats.paths[cur][rule.field] = Append(@, c1.value)])
               [] rule.act = "path_set" ->
                    ok([loc EXCEPT !.stats.paths[cur][rule.field] = c1.value])
               [] rule.act = "pair" ->
                    IF c2.raised
                    THEN [raised |-> TRUE, loc |-> loc, exc |-> c2.exc,
                          field |-> rule.field]
                    ELSE ok([loc EXCEPT !.stats[rule.field] =
                                            Append(@, <<c1.value, c2.value>>)])
               [] rule.act = "sim_time" ->
                    ok([loc EXCEPT !.simulation_time = c1.value, !.broke = TRUE])

\* the body of the "if" that was taken, m being its match: the second group
\* is converted only where the body converts it
Apply(v, rule, loc, m) ==
    Store(v, rule, loc, Convert(rule.conv, m.group1), Convert(rule.conv, m.group2))

\* the "if" at position i of the loop body runs on the line; 0: none does,
\* and the line changes nothing
Dispatch(v, rules, loc, frags, i) ==
    IF i = 0 THEN [raised |-> FALSE, loc |-> loc, exc |-> NoExc, field |-> ""]
    ELSE Apply(v, rules[i], loc, search(Pattern(v, rules[i].re), frags))

\* the first "if" taken, top to bottom, decides
FirstTaken(v, rules, loc, frags) ==
    Dispatch(v, rules, loc, frags,
             Leftmost({i \in 1..Len(rules) : Taken(v, rules[i], loc, frags)}))

\* one iteration of "for line in lines"
ScanLine(v, loop, loc, line) == FirstTaken(v, Rules(v, loop), loc, Fragments(line))

\* stats kept across calls (a module-level dict) instead of built per call
CarriedLocals(v) ==
    [stats |-> IF result["treatment"].kind = "stats" THEN result["treatment"].stats
               ELSE InitialStats(v),
     current_path |-> None, simulation_time |-> Num(60), broke |-> FALSE]

\* the locals of parse_output before the first loop
InitialLocals(v) ==
    IF v = Competing
    THEN [stats |-> InitialStats(v), current_path |-> None, in_frame_stats |-> FALSE]
    ELSE [stats |-> InitialStats(v), current_path |-> None,
          simulation_time |-> Num(60), broke |-> FALSE]

Loops(v) == IF v = TcpSimple THEN 3 ELSE 1

ZeroDivisionError == [type |-> "ZeroDivisionError", text |-> <<>>]

\* "(rx_bytes * 8) / (simulation_time * 1000000)"
Mbps(bytes, simulation_time) ==
    Div(Mul(bytes, Num(8)), Mul(simulation_time, Num(1000000)))

\* after the loops: the derived throughputs of tcp-compare-simple-nada
Derived(v, loc) ==
    IF v # TcpSimple THEN [raised |-> FALSE, stats |-> loc.stats, exc |-> NoExc]
    ELSE IF /\ loc.stats.nada_rx_bytes # None \/ loc.stats.tcp_rx_bytes # None
            /\ loc.simulation_time = Zero
    THEN [raised |-> TRUE, stats |-> loc.stats, exc |-> ZeroDivisionError]
    ELSE [raised |-> FALSE, exc |-> NoExc,
          stats |-> [loc.stats EXCEPT
            !.nada_throughput =
                IF loc.stats.nada_rx_bytes # None
                THEN Mbps(loc.stats.nada_rx_bytes, loc.simulation_time) ELSE @,
            !.tcp_throughput =
                IF loc.stats.tcp_rx_bytes # None
                THEN Mbps(loc.stats.tcp_rx_bytes, loc.simulation_time) ELSE @]]

\* "if not stats['throughput'] and not stats['delay'] and not stats['loss']"
NoMetricsParsed(v, st) ==
    /\ st.throughput = <<>> /\ st.delay = <<>> /\ st.loss = <<>>
    /\ v = TcpSimple => st.nada_rx_bytes = None /\ st.tcp_rx_bytes = None

-----------------------------------------------------------------------------
(* analyze_results.                                                        *)

\* "sum(x) / len(x) if x else 0"
MeanOrZero(x) == IF x # <<>> THEN Div(Sum(x), Num(Len(x))) ELSE Zero

\* np.mean(x): nan for an empty x
NpMean(x) == IF x = <<>> THEN NaN ELSE Div(Sum(x), Num(Len(x)))

\* the square root of a fraction q >= 0: a fraction when q is a square,
\* else <<n, d, 2>>
Sqrt(q) ==
    LET root(n) == CHOOSE r \in 0..n : r * r >= n
    IN  IF root(q[1]) * root(q[1]) = q[1] /\ root(q[2]) * root(q[2]) = q[2]
        THEN <<root(q[1]), root(q[2])>>
        ELSE <<q[1], q[2], 2>>

\* the square of a fraction, or of the surd <<n, d, 2>>
Square(x) == IF Len(x) = 3 THEN <<x[1], x[2]>> ELSE Mul(x, x)

\* the squared deviations of x from the mean m
SquaredDeviations(x, m) == [i \in 1..Len(x) |-> Square(Sub(x[i], m))]

\* np.std(x): the population standard deviation, nan for an empty x
NpStd(x) ==
    IF x = <<>> THEN NaN
    ELSE Sqrt(Div(Sum(SquaredDeviations(x, Div(Sum(x), Num(Len(x))))), Num(Len(x))))

\* np.std(x) without the "if x else 0"
UnguardedStd(x) == NpStd(x)

\* "np.std(x) if x else 0"
StdOrZero(x) == IF x # <<>> THEN NpStd(x) ELSE Zero

\* the factors without "max(0, ...)"
Unclamped(x) == Sub(Num(1), x)

\* "max(0, 1 - x)"
Factor(x) == Max(Zero, Sub(Num(1), x))

\* the product of the factors scaled by 5, without the "1 +"
MosFromZero(loss, delay, jitter) ==
    Mul(Num(5), Mul(Factor(Div(loss, Num(20))),
                    Mul(Factor(Div(delay, Num(1))), Factor(Mul(jitter, Num(20))))))

\* four times the product of the factors, without the "1 +"
MosProduct(loss, delay, jitter) ==
    Mul(Num(4), Mul(Factor(Div(loss, Num(20))),
                    Mul(Factor(Div(delay, Num(1))), Factor(Mul(jitter, Num(20))))))

\* the estimated MOS of a run
Mos(loss, delay, jitter) ==
    Add(Num(1),
        Mul(Num(4), Mul(Factor(Div(loss, Num(20))),
                        Mul(Factor(Div(delay, Num(1))), Factor(Mul(jitter, Num(20)))))))

\* 0 instead of nan when the baseline is 0
ZeroWithoutBaseline(t, b) ==
    IF b # Zero THEN Mul(Div(Sub(t, b), b), Num(100)) ELSE Zero

\* "(t - b) / b * 100 if b else float('nan')"
HigherIsBetter(t, b) ==
    IF b # Zero THEN Mul(Div(Sub(t, b), b), Num(100)) ELSE NaN

\* a lower-is-better metric scored as if higher were better
SignFlipped(t, b) ==
    IF b # Zero THEN Mul(Div(Sub(t, b), b), Num(100)) ELSE NaN

\* "(b - t) / b * 100 if b else float('nan')"
LowerIsBetter(t, b) ==
    IF b # Zero THEN Mul(Div(Sub(b, t), b), Num(100)) ELSE NaN

Row(m, t, b, i) == [metric |-> m, treatment |-> t, baseline |-> b, improvement |-> i]

\* a row of a metric that is better when higher, and of one better when lower
HigherRow(m, t, b) == Row(m, t, b, HigherIsBetter(t, b))
LowerRow(m, t, b) == Row(m, t, b, LowerIsBetter(t, b))

\* comparison_df with its 'Improvement (%)' column: the five core rows
CoreRows(t, b) ==
    << HigherRow("Throughput (Mbps)", MeanOrZero(t.throughput), MeanOrZero(b.throughput)),
       LowerRow("Delay (seconds)", MeanOrZero(t.delay), MeanOrZero(b.delay)),
       LowerRow("Loss (%)", MeanOrZero(t.loss), MeanOrZero(b.loss)),
       LowerRow("Jitter (seconds)", MeanOrZero(t.jitter), MeanOrZero(b.jitter)),
       HigherRow("Estimated MOS (1-5)",
                 Mos(MeanOrZero(t.loss), MeanOrZero(t.delay), MeanOrZero(t.jitter)),
                 Mos(MeanOrZero(b.loss), MeanOrZero(b.delay), MeanOrZero(b.jitter))) >>

\* "(s - m) / s * 100" for two standard deviations, s > 0: a fraction, or
\* <<n, d, 4>> for 100 * (1 - sqrt(n/d))
StdImprovement(m, s) ==
    LET ratio == Sqrt(Div(Square(m), Square(s)))
    IN  IF Len(ratio) = 2 THEN Mul(Sub(Num(1), ratio), Num(100))
        ELSE <<ratio[1], ratio[2], 4>>

\* "if not np.isnan(metric[1]) and not np.isnan(metric[2]) and metric[2] != 0"
Comparable(t, b) == t # NaN /\ b # NaN /\ b # Zero

\* path_utilization: acked / sent * 100 per path, 0 when nothing was sent
PathUtilization(paths) ==
    [i \in 1..Len(paths) |->
        [path |-> paths[i].id,
         utilization |->
             IF Less(Zero, paths[i].sent)
             THEN Mul(Div(paths[i].acked, paths[i].sent), Num(100)) ELSE Zero]]

\* theoretical_max: the sum of the paths' mean rates
TheoreticalMax(paths) ==
    Sum([i \in 1..Len(paths) |->
            IF paths[i].rate # <<>> THEN NpMean(paths[i].rate) ELSE Zero])

\* "x / y * 100 if y > 0 else 0"
PercentOf(x, y) == IF Less(Zero, y) THEN Mul(Div(x, y), Num(100)) ELSE Zero

\* path_utilization_ratio: mean throughput over the sum of the paths' mean
\* rates, in percent; 0 when that sum is not positive
PathUtilizationRatio(paths, throughput) == PercentOf(throughput, TheoreticalMax(paths))

\* a row appended after the improvement column was filled: no baseline
TreatmentRow(m, t) == Row(m, t, NaN, NaN)

\* the improvement of an appended row, when both values are numbers and
\* the baseline is not 0
StabilityRow(m, t, b) ==
    Row(m, t, b, IF Comparable(t, b) THEN StdImprovement(t, b) ELSE NaN)
GainRow(m, t, b) ==
    Row(m, t, b, IF Comparable(t, b) THEN Mul(Div(Sub(t, b), b), Num(100)) ELSE NaN)
PositiveGainRow(m, t, b) ==
    Row(m, t, b, IF Comparable(t, b) /\ Less(Zero, b)
                 THEN Mul(Div(Sub(t, b), b), Num(100)) ELSE NaN)
PositiveReductionRow(m, t, b) ==
    Row(m, t, b, IF Comparable(t, b) /\ Less(Zero, b)
                 THEN Mul(Div(Sub(b, t), b), Num(100)) ELSE NaN)
UnderrunRow(m, t, b) ==
    Row(m, t, b, IF Comparable(t, b)
                 THEN Mul(Div(Sub(b, t), Max(Num(1), b)), Num(100)) ELSE NaN)

\* "max(0, 100 - quality_transitions * 5)"
QualitySmoothness(quality_transitions) ==
    Max(Zero, Sub(Num(100), Mul(quality_transitions, Num(5))))

\* the baseline's energy efficiency: "100 - loss if loss else 100"
BaselineEnergy(b_loss) == IF b_loss # Zero THEN Sub(Num(100), b_loss) ELSE Num(100)

\* the rows compare-mp-simple-nada appends to the core rows
MpRows(t, b) ==
    << StabilityRow("Throughput Stability (std)",
                    StdOrZero(t.throughput), StdOrZero(b.throughput)),
       TreatmentRow("Path Failover Events", Num(Len(t.path_switches))),
       TreatmentRow("Path Utilization Ratio (%)",
                    PathUtilizationRatio(t.paths, MeanOrZero(t.throughput))),
       TreatmentRow("Quality Transitions", Num(Len(t.quality_changes))),
       TreatmentRow("Quality Smoothness (%)",
                    QualitySmoothness(Num(Len(t.quality_changes)))),
       GainRow("Energy Efficiency (%)",
               PercentOf(Sum([i \in 1..Len(t.paths) |-> t.paths[i].acked]),
                         Sum([i \in 1..Len(t.paths) |-> t.paths[i].sent])),
               BaselineEnergy(MeanOrZero(b.loss))) >>

\* "np.mean(stats.get('energy_metrics', [0]))": the key is always present
\* in a record of parse_output, so the default [0] is never used
EnergyEfficiency(st) == NpMean(st.energy_metrics)

\* "np.mean(x) if x else 0"
NpMeanOrZero(x) == IF x # <<>> THEN NpMean(x) ELSE Zero

\* the rows tcp-compare-mp-nada appends to the core rows: TCP rows, then
\* the additional metrics, then the buffer rows
TcpMpRows(t, b) ==
    << PositiveGainRow("TCP Congestion Window (packets)",
                       NpMeanOrZero(t.tcp_stats.cwnd), NpMeanOrZero(b.tcp_stats.cwnd)),
       PositiveReductionRow("TCP Retransmissions",
                            Sum(t.tcp_stats.retrans), Sum(b.tcp_stats.retrans)),
       StabilityRow("Throughput Stability (stddev)",
                    StdOrZero(t.throughput), StdOrZero(b.throughput)),
       TreatmentRow("Path Utilization Ratio (%)",
                    PathUtilizationRatio(t.paths, MeanOrZero(t.throughput))),
       GainRow("Energy Efficiency (%)", EnergyEfficiency(t), EnergyEfficiency(b)),
       PositiveGainRow("Buffer Length (ms)",
                       t.buffer_stats.average_ms, b.buffer_stats.average_ms),
       UnderrunRow("Buffer Underruns",
                   t.buffer_stats.underruns, b.buffer_stats.underruns) >>

\* "x or 0" for a field that is None until its line is seen
OrZero(x) == IF x = None THEN Zero ELSE x

\* the buffer stability score of tcp-compare-simple-nada
BufferStability(st) ==
    IF Less(Zero, st.avg_buffer_length)
    THEN Mul(Div(Num(100), Add(Num(1), st.buffer_underruns)),
             Div(st.avg_buffer_length, Add(Num(1), OrZero(st.buffer_variance))))
    ELSE Zero

\* "max(1, 5 - 0.2 * (underruns or 0) - 0.1 * (stalls or 0))"
BufferQoe(st) ==
    Max(Num(1), Sub(Sub(Num(5), Mul(<<1, 5>>, OrZero(st.buffer_underruns))),
                    Mul(<<1, 10>>, OrZero(st.buffer_stalls))))

\* "None > 0", "1 + None" and np.isnan(None) raise TypeError: analyze_results
\* of tcp-compare-simple-nada needs the three buffer lines in both runs
BufferFieldsMissing(st) ==
    st.buffer_underruns = None \/ st.avg_buffer_length = None \/ st.buffer_stalls = None

\* "x if x is not None else mean": a summary line's value before the mean
\* of the samples
Preferred(x, samples) == IF x # None THEN x ELSE MeanOrZero(samples)

\* the seven rows of tcp-compare-simple-nada's comparison_df
TcpSimpleCoreRows(t, b) ==
    << HigherRow("Throughput (Mbps)", Preferred(t.nada_throughput, t.throughput),
                 MeanOrZero(b.throughput)),
       Row("TCP Throughput (Mbps)", OrZero(t.tcp_throughput), Zero, NaN),
       LowerRow("Delay (seconds)", MeanOrZero(t.delay), MeanOrZero(b.delay)),
       LowerRow("Loss (%)", Preferred(t.nada_loss, t.loss), MeanOrZero(b.loss)),
       Row("TCP Loss (%)", OrZero(t.tcp_loss), Zero, NaN),
       LowerRow("Jitter (seconds)", MeanOrZero(t.jitter), MeanOrZero(b.jitter)),
       HigherRow("Estimated MOS (1-5)",
                 Mos(Preferred(t.nada_loss, t.loss), MeanOrZero(t.delay),
                     MeanOrZero(t.jitter)),
                 Mos(MeanOrZero(b.loss), MeanOrZero(b.delay), MeanOrZero(b.jitter))) >>

\* a row appended for a buffer metric: the dict assigned to
\* comparison_df.loc[new_idx] has the keys 'TCP-Multipath' and 'TCP-Simple',
\* the frame has the columns 'NADA' and 'Basic', which are left NaN; the
\* improvement of a lower-is-better row is the underrun reduction
Appended(m, m1, m2, lower, reduction) ==
    Row(m, NaN, NaN,
        IF m2 = Zero THEN NaN
        ELSE IF lower THEN reduction ELSE Mul(Div(Sub(m1, m2), m2), Num(100)))

\* the five rows appended for the buffer metrics
BufferRows(t, b, reduction) ==
    << Appended("Buffer Underruns", t.buffer_underruns, b.buffer_underruns, TRUE,
                reduction),
       Appended("Avg Buffer Length (ms)", t.avg_buffer_length, b.avg_buffer_length,
                FALSE, reduction),
       Appended("Buffer Stalls", t.buffer_stalls, b.buffer_stalls, TRUE, reduction),
       Appended("Buffer Stability Score", BufferStability(t), BufferStability(b),
                FALSE, reduction),
       Appended("Buffer QoE Impact (1-5)", BufferQoe(t), BufferQoe(b), FALSE,
                reduction) >>

\* underrun_reduction, then the appended rows
TcpSimpleBufferRows(t, b) ==
    BufferRows(t, b, IF b.buffer_underruns # Zero
                     THEN Mul(Div(Sub(b.buffer_underruns, t.buffer_underruns),
                                  b.buffer_underruns), Num(100))
                     ELSE NaN)

\* the path records with norm_weight stored, total_weight being the sum of
\* their weights
WithNormWeight(paths, total_weight) ==
    [i \in 1..Len(paths) |->
        [id |-> paths[i].id, rate |-> paths[i].rate, rtt |-> paths[i].rtt,
         sent |-> paths[i].sent, acked |-> paths[i].acked,
         weight |-> paths[i].weight,
         norm_weight |-> IF Less(Zero, total_weight)
                         THEN Div(paths[i].weight, total_weight) ELSE Zero]]

\* the weights divided by the number of paths
NormalizedByCount(paths) == WithNormWeight(paths, Num(Len(paths)))

\* the two loops over the treatment's paths: total_weight, then norm_weight
\* stored into each path record of the caller's stats
Normalized(paths) ==
    WithNormWeight(paths, Sum([i \in 1..Len(paths) |-> paths[i].weight]))

\* path_df from path_utilization and the normalised paths
PathTable(v, util, normalized) ==
    [i \in 1..Len(util) |->
        [path |-> util[i].path, utilization |-> util[i].utilization,
         weight |-> IF v = TcpMp THEN Mul(normalized[i].norm_weight, Num(100))
                    ELSE None]]

\* path_df: one row per entry of path_utilization, in the dict's order
PathRows(v, paths) == PathTable(v, PathUtilization(paths), Normalized(paths))

\* "and" in the place of "or" in the guard of analyze_results
BothMissing(t, b) == t.kind # "stats" /\ b.kind # "stats"

\* "if not multipath_stats or not simple_stats": a record of parse_output
\* is a non-empty dict, so only None is falsy
MissingData(t, b) == t.kind # "stats" \/ b.kind # "stats"

TypeError == [type |-> "TypeError", text |-> <<>>]

\* what analyze_results leaves: its outcome, the two frames, the exception
\* and the treatment's stats as the call left them
Outcome(k, rows, paths, exc, st) ==
    [kind |-> k, comparison |-> rows, path_df |-> paths, exc |-> exc, treatment |-> st]

\* the rows after the core rows, by script
MoreRows(v, t, b) ==
    CASE v = Simple -> <<>>
      [] v = Mp -> MpRows(t, b)
      [] v = TcpMp -> TcpMpRows(t, b)

\* analyze_results on two records
Tables(v, t, b) ==
    IF v = TcpSimple
    THEN IF BufferFieldsMissing(t) \/ BufferFieldsMissing(b)
         THEN Outcome("raised", <<>>, <<>>, TypeError, t)
         ELSE Outcome("tables", TcpSimpleCoreRows(t, b) \o TcpSimpleBufferRows(t, b),
                      <<>>, NoExc, t)
    ELSE Outcome("tables", CoreRows(t, b) \o MoreRows(v, t, b),
                 IF v = Simple THEN <<>> ELSE PathRows(v, t.paths), NoExc,
                 IF v = TcpMp THEN [t EXCEPT !.paths = Normalized(@)] ELSE t)

\* analyze_results(treatment, baseline) on two outcomes of parse_output;
\* subscripting None raises TypeError
analyze_results(v, t, b) ==
    IF MissingData(t, b) THEN Outcome("empty", <<>>, <<>>, NoExc, t.stats)
    ELSE IF t.kind # "stats" \/ b.kind # "stats"
    THEN Outcome("raised", <<>>, <<>>, TypeError, t.stats)
    ELSE Tables(v, t.stats, b.stats)

-----------------------------------------------------------------------------
(* The script: run_simulation for the treatment and for the baseline,      *)
(* parse_output on each output, analyze_results on the two outcomes: the   *)
(* main loop of compare-simple-nada.py and tcp-compare-simple-nada.py.     *)
(* The two multipath scripts put generate_dummy_data in the place of the   *)
(* parse when an output is missing; here they are driven like the other    *)
(* two, so that their parse_output and analyze_results meet every input.   *)
(* A simulator prints its report in blocks of lines; the blocks come in    *)
(* families, one family per run of the script.                             *)

MaxPrints == 2       \* blocks per transcript when both runs print
MaxScanPrints == 3   \* blocks of the treatment when the baseline prints nothing

\* the blocks a simulator may print, by script and by family
Prints(v, g) ==
    CASE g = "rates" ->
           { <<"Throughput: 10 Mbps">>, <<"Throughput: 8 Mbps">>,
             <<"Mean delay: 0.04 seconds">>, <<"Mean delay: 0.05 seconds">> }
      [] g = "signed" ->
           { <<"Mean delay: -0.05 seconds">>, <<"Mean delay: -6e-2 seconds">>,
             <<"Mean delay: 0.04 seconds">> }
      [] g = "malformed" ->
           { <<"Throughput: 1.2.3 Mbps">>, <<"Mean delay: e- seconds">>,
             <<"Mean delay: 0.04 seconds">>, <<"Simulation finished">>, <<"">> }
      [] g = "core" ->
           { <<"Throughput: 10 Mbps">>, <<"Throughput: 8 Mbps">>,
             <<"Throughput: 0 Mbps">> }
      [] g = "tcp" ->
           { <<"TCP congestion window: 10">>, <<"TCP Retransmissions: 2">>,
             <<"TCP Retransmissions: 0">> }
      [] g = "buffer" /\ v = TcpMp ->
           { <<"Average buffer length: 50 ms">>, <<"Average buffer length: 40 ms">>,
             <<"Buffer underruns: 2">> }
      [] g = "buffer" /\ v = TcpSimple ->
           { <<"Buffer underruns: 2", "Average buffer length: 50 ms",
               "Buffer stalls: 1">>,
             <<"Buffer underruns: 0", "Average buffer length: 40 ms",
               "Buffer stalls: 3">> }
      [] g = "energy" /\ v = Mp ->
           { <<"Energy efficiency: 90%">>, <<"Packet loss: 3%">>,
             <<"Path 1:", "Packets sent: 10", "Packets acked: 9">> }
      [] g = "energy" /\ v = TcpMp ->
           { <<"network efficiency: 90%">>, <<"network efficiency: 80%">>,
             <<"Throughput: 8 Mbps">> }
      [] g = "paths" /\ v = Mp ->
           { <<"Path 1:", "Rate: 5 Mbps", "Packets sent: 10", "Packets acked: 9">>,
             <<"Path 2:", "RTT: 20 ms">>, <<"Rate: 5 Mbps">> }
      [] g = "paths" /\ v = TcpMp ->
           { <<"Path 1:", "Rate: 5 Mbps", "Weight: 0.6">>,
             <<"Path 2:", "Packets sent: 10", "Packets acked: 9", "Weight: 0.2">>,
             <<"Rate: 5 Mbps">> }
      [] g = "pathlines" ->
           { <<"Path 1:", "Weight: 0.6", "TCP RTT: 30 ms">>,
             <<"TCP RTT: 30 ms", "Weight: 0.2", "RTT: 20 ms">>,
             <<"Path 2:", "Packets sent: 10", "Packets acked: 9">> }
      [] g = "events" ->
           { <<"Path switch: from path 1 to path 2">>, <<"Quality changed: 1.5 -> 2.5">>,
             <<"Throughput: 8 Mbps">> }
      [] g = "loss" ->
           { <<"Packet loss: 3%">>, <<"NADA packet loss: 3%">>, <<"TCP packet loss: 4%">>,
             <<"NADA packet loss: 3% Packet loss: 4%">>,
             <<"WebRTC packet loss: 3% Packet loss: 4%">> }
      [] g = "bytes" ->
           { <<"NADA Rx Bytes: 7500000">>, <<"TCP Rx Bytes: 3750000">>,
             <<"Simulation time: 30 seconds">>, <<"Simulation time: 0 seconds">> }

Groups(v) ==
    CASE v = Simple -> {"rates", "signed", "malformed"}
      [] v = Mp -> {"rates", "paths", "events", "energy", "malformed"}
      [] v = TcpMp -> {"core", "tcp", "buffer", "energy", "paths", "pathlines", "events",
                     "malformed"}
      [] v = TcpSimple -> {"rates", "buffer", "loss", "bytes", "malformed"}

\* the families in which the baseline simulator fails (prints nothing)
ScanGroups == {"malformed", "loss", "bytes"}

Limit(g, r) ==
    IF g \notin ScanGroups THEN MaxPrints
    ELSE IF r = "treatment" THEN MaxScanPrints ELSE 0

NoScan == [run |-> "", pos |-> 0, loop |-> 0, loc |-> <<>>]
NoOutput == [kind |-> "None", lines |-> <<>>, prints |-> 0]
Unparsed == [kind |-> "unparsed", stats |-> <<>>, exc |-> NoExc, warned |-> FALSE]
NoTables == [kind |-> "none", comparison |-> <<>>, path_df |-> <<>>, exc |-> NoExc,
             treatment |-> <<>>]
NoFault == [line |-> 0, field |-> ""]
NoStat == <<>>

\* "output is None" in the place of "not output"
NoneOnly(out) == out.kind = "None"

\* "not output": None, or the empty string (whose only line is empty)
Falsy(out) == out.kind = "None" \/ out.lines = <<"">>

InitWith(v) ==
    /\ variant = v
    /\ group \in Groups(v)
    /\ output = [r \in Runs |-> NoOutput]
    /\ pc = "simulate"
    /\ scan = NoScan
    /\ result = [r \in Runs |-> Unparsed]
    /\ fault = NoFault
    /\ tables = NoTables
    /\ stat = NoStat

\* run_simulation: the simulator of run r prints one more block; a run that
\* prints nothing leaves no output (None)
RunSimulation(r) ==
    /\ pc = "simulate"
    /\ output[r].prints < Limit(group, r)
    /\ \E block \in Prints(variant, group) :
          output' = [output EXCEPT ![r] = [kind |-> "str", lines |-> @.lines \o block,
                                           prints |-> @.prints + 1]]
    /\ UNCHANGED <<variant, group, pc, scan, result, fault, tables, stat>>

After(r) == IF r = "treatment" THEN "parse_baseline" ELSE "analyze"

\* parse_output(output[r]), up to the first loop: None for no output
ParseBegin(r) ==
    /\ pc = IF r = "treatment" THEN "simulate" ELSE "parse_baseline"
    /\ IF Falsy(output[r])
       THEN /\ result' = [result EXCEPT ![r] = [Unparsed EXCEPT !.kind = "None"]]
            /\ pc' = After(r)
            /\ scan' = scan
       ELSE /\ scan' = [run |-> r, pos |-> 1, loop |-> 1, loc |-> InitialLocals(variant)]
            /\ pc' = "scanning"
            /\ result' = result
    /\ UNCHANGED <<variant, group, output, fault, tables, stat>>

\* the position and the loop after a line: the next line, or the first line
\* of the next loop after the last line (or a "break"), or past the end
Advance(pos, loop, n, last) ==
    [pos |-> IF last /\ loop < Loops(variant) THEN 1
             ELSE IF last THEN n + 1 ELSE pos + 1,
     loop |-> IF last /\ loop < Loops(variant) THEN loop + 1 ELSE loop]

\* what one iteration leaves, s being the outcome of the loop body
Scanned(s, n) ==
    IF s.raised
    THEN /\ result' = [result EXCEPT ![scan.run] =
                          [Unparsed EXCEPT !.kind = "raised", !.exc = s.exc]]
         /\ fault' = [line |-> scan.pos, field |-> s.field]
         /\ pc' = "aborted"
         /\ scan' = scan
    ELSE /\ scan' = [run |-> scan.run, loc |-> s.loc] @@
                    Advance(scan.pos, scan.loop, n, scan.pos = n \/ s.loc.broke)
         /\ UNCHANGED <<result, fault, pc>>

\* one iteration of a loop over the lines; an exception of float() or int()
\* ends parse_output and, uncaught, the script
ScanStep ==
    /\ pc = "scanning"
    /\ scan.pos <= Len(output[scan.run].lines)
    /\ Scanned(ScanLine(variant, scan.loop, scan.loc, output[scan.run].lines[scan.pos]),
               Len(output[scan.run].lines))
    /\ UNCHANGED <<variant, group, output, tables, stat>>

\* what parse_output returns, d being the outcome of the derived metrics
Returned(d) ==
    IF d.raised
    THEN /\ result' = [result EXCEPT ![scan.run] =
                          [Unparsed EXCEPT !.kind = "raised", !.exc = d.exc]]
         /\ pc' = "aborted"
    ELSE /\ result' = [result EXCEPT ![scan.run] =
                          [kind |-> "stats", stats |-> d.stats, exc |-> NoExc,
                           warned |-> NoMetricsParsed(variant, d.stats)]]
         /\ pc' = After(scan.run)

\* after the loops: the derived metrics, the warning, "return stats"
ParseEnd ==
    /\ pc = "scanning"
    /\ scan.pos > Len(output[scan.run].lines)
    /\ Returned(Derived(variant, scan.loc))
    /\ scan' = NoScan
    /\ UNCHANGED <<variant, group, output, fault, tables, stat>>

\* the tables and the treatment's stats after the call
Analysed(out) ==
    /\ tables' = out
    /\ result' = [result EXCEPT !["treatment"].stats = out.treatment]

\* analyze_results(treatment, baseline); it stores norm_weight into the
\* treatment's path records
AnalyzeResults ==
    /\ pc = "analyze"
    /\ Analysed(analyze_results(variant, result["treatment"], result["baseline"]))
    /\ pc' = "done"
    /\ UNCHANGED <<variant, group, output, scan, fault, stat>>

Next ==
    \/ \E r \in Runs : RunSimulation(r)
    \/ \E r \in Runs : ParseBegin(r)
    \/ ScanStep
    \/ ParseEnd
    \/ AnalyzeResults

SpecSimple == InitWith(Simple) /\ [][Next]_vars
SpecMp == InitWith(Mp) /\ [][Next]_vars
SpecTcpMp == InitWith(TcpMp) /\ [][Next]_vars
SpecTcpSimple == InitWith(TcpSimple) /\ [][Next]_vars

-----------------------------------------------------------------------------
(* The MOS estimate on its own: analyze_results computes it from the mean  *)
(* loss, delay and jitter of a run, parse_output of nada-webrtc.py from    *)
(* the loss, delay and jitter of a WebRTC flow that received packets.      *)

WebRtc == "nada-webrtc"

\* the values the three inputs are drawn from: loss in percent, delay and
\* jitter in seconds, none negative
Losses == {Zero, <<6, 5>>, Num(10), Num(20), Num(25)}
Delays == {Zero, <<9, 200>>, <<1, 2>>, Num(1), Num(2)}
Jitters == {Zero, <<1, 125>>, <<1, 40>>, <<1, 20>>, <<1, 10>>}

\* flow['rx_packets'] of the flow; not looked at by analyze_results
RxPackets(script) == IF script = WebRtc THEN {0, 100} ELSE {0}

\* "if flow['rx_packets'] > 0" of nada-webrtc.py; analyze_results has no
\* such guard
Estimated(script, rx_packets) == script # WebRtc \/ rx_packets > 0

\* one factor, where it is computed
FactorOf(script, rx_packets, x) ==
    IF Estimated(script, rx_packets) THEN Factor(x) ELSE None

\* mos, or flow['estimated_mos']: 1.0 for a flow that received nothing
EstimatedMos(script, rx_packets, loss, delay, jitter) ==
    IF Estimated(script, rx_packets) THEN Mos(loss, delay, jitter) ELSE Num(1)

MosInit ==
    /\ variant = Simple
    /\ group = "rates"
    /\ output = [r \in Runs |-> NoOutput]
    /\ pc = "analyze"
    /\ scan = NoScan
    /\ result = [r \in Runs |-> Unparsed]
    /\ fault = NoFault
    /\ tables = NoTables
    /\ \E script \in {Simple, WebRtc} :
          \E rx \in RxPackets(script), loss \in Losses, delay \in Delays,
             jitter \in Jitters :
              stat = [script |-> script, rx_packets |-> rx, loss |-> loss,
                      delay |-> delay, jitter |-> jitter, loss_factor |-> None,
                      delay_factor |-> None, jitter_factor |-> None, mos |-> None]

\* the three factors and the score
ComputeMos ==
    /\ stat.mos = None
    /\ stat' = [stat EXCEPT
                  !.loss_factor =
                      FactorOf(stat.script, stat.rx_packets, Div(stat.loss, Num(20))),
                  !.delay_factor =
                      FactorOf(stat.script, stat.rx_packets, Div(stat.delay, Num(1))),
                  !.jitter_factor =
                      FactorOf(stat.script, stat.rx_packets, Mul(stat.jitter, Num(20))),
                  !.mos = EstimatedMos(stat.script, stat.rx_packets, stat.loss,
                                       stat.delay, stat.jitter)]
    /\ UNCHANGED <<variant, group, output, pc, scan, result, fault, tables>>

SpecMos == MosInit /\ [][ComputeMos]_vars

-----------------------------------------------------------------------------
(* Jain's fairness index of one group of flows, as generate_visualizations *)
(* of single-path-statistics.py and single-steady.py computes it.          *)

MaxFlows == 3   \* flows in one group

Inf == <<1, 0>>

\* numpy's "/" on float64: 0/0 is nan and x/0 is inf, with a RuntimeWarning
\* and no exception
NpTrueDivide(a, b) ==
    IF b # Zero THEN Div(a, b) ELSE IF a = Zero THEN NaN ELSE Inf

\* "throughputs**2", element by element
Squares(x) == [i \in 1..Len(x) |-> Mul(x[i], x[i])]

\* "np.sum(throughputs)**2 / (len(throughputs) * np.sum(throughputs**2))"
JainIndex(x) ==
    NpTrueDivide(Mul(Sum(x), Sum(x)), Mul(Num(Len(x)), Sum(Squares(x))))

\* the 'throughput' of a flow: 0 until a "Throughput: ([0-9.]+) Mbps" line
\* sets it, never negative
Throughputs == {Zero, <<5, 2>>, Num(5), Num(10)}

\* "if len(group) > 1", then the append to fairness_data
FairnessData(throughputs) ==
    IF Len(throughputs) > 1 THEN <<JainIndex(throughputs)>> ELSE <<>>

FairnessInit ==
    /\ variant = Simple
    /\ group = "rates"
    /\ output = [r \in Runs |-> NoOutput]
    /\ pc = "analyze"
    /\ scan = NoScan
    /\ result = [r \in Runs |-> Unparsed]
    /\ fault = NoFault
    /\ tables = NoTables
    /\ \E n \in 1..MaxFlows :
          \E throughputs \in [1..n -> Throughputs] :
              stat = [throughputs |-> throughputs, fairness_data |-> <<>>,
                      at |-> "group"]

\* one pass of the body of the loop over the groups
ComputeFairness ==
    /\ stat.at = "group"
    /\ stat' = [stat EXCEPT !.fairness_data = FairnessData(stat.throughputs),
                            !.at = "next"]
    /\ UNCHANGED <<variant, group, output, pc, scan, result, fault, tables>>

SpecFairness == FairnessInit /\ [][ComputeFairness]_vars

-----------------------------------------------------------------------------

(* parse_output of the flow-based scripts: single-path-statistics.py,      *)
(* single-steady.py and nada-webrtc.py.                                    *)

MaxFlowLines == 3   \* lines of a transcript of a flow-based script

SinglePath == "single-path-statistics"
SingleSteady == "single-steady"
FlowScripts == {SinglePath, SingleSteady, WebRtc}

\* the lines a simulator of these scripts prints
FlowLines ==
    { "Flow 1 (10.1.1.1 -> 10.1.2.2)", "Flow 2 (10.1.1.2 -> 10.1.2.2) [WebRTC]",
      "Tx Packets: 100", "Rx Packets: 90", "Total Tx Packets: 300",
      "Total Rx Bytes: 5000", "Throughput: 10 Mbps", "Throughput: 1.2.3 Mbps" }

\* groups 2, 3 and 4 of flow_re on what follows the flow id; the addresses
\* are [0-9.]+ and "[WebRTC]" is optional
Endpoints(unit) ==
    CASE unit = " (10.1.1.1 -> 10.1.2.2)" ->
           [found |-> TRUE, src |-> "10.1.1.1", dst |-> "10.1.2.2", webrtc |-> FALSE]
      [] unit = " (10.1.1.2 -> 10.1.2.2) [WebRTC]" ->
           [found |-> TRUE, src |-> "10.1.1.2", dst |-> "10.1.2.2", webrtc |-> TRUE]
      [] OTHER -> [found |-> FALSE, src |-> "", dst |-> "", webrtc |-> FALSE]

\* flow_re matches at this fragment
FlowHeaderAt(f) ==
    /\ f.label = "Flow "
    /\ f.text # <<>> /\ ClassPrefix(f.text, Digits) = f.text
    /\ Endpoints(f.unit).found

\* flow_re.search(line): 0 for no match, else the fragment of the match
flow_match(frags) == Leftmost({i \in 1..Len(frags) : FlowHeaderAt(frags[i])})

\* current_flow = {...}
NewFlow(script, f) ==
    IF script = WebRtc
    THEN [id |-> DigitsValue(f.text, 0), src |-> Endpoints(f.unit).src,
          dst |-> Endpoints(f.unit).dst, is_webrtc |-> Endpoints(f.unit).webrtc,
          tx_packets |-> Zero, rx_packets |-> Zero, tx_bytes |-> Zero,
          rx_bytes |-> Zero, throughput |-> Zero, delay |-> Zero, jitter |-> Zero,
          loss |-> Zero]
    ELSE [id |-> DigitsValue(f.text, 0), src |-> Endpoints(f.unit).src,
          dst |-> Endpoints(f.unit).dst, tx_packets |-> Zero, rx_packets |-> Zero,
          throughput |-> Zero, delay |-> Zero, loss |-> Zero]

\* overall_stats = {...} of nada-webrtc.py; the other two scripts have none
InitialOverall(script) ==
    IF script = WebRtc
    THEN [total_tx_packets |-> Zero, total_rx_packets |-> Zero,
          total_tx_bytes |-> Zero, total_rx_bytes |-> Zero,
          overall_packet_loss |-> Zero, network_efficiency |-> Zero]
    ELSE None

\* the locals of parse_output before the loop; current_flow is None (<<>>)
\* or the one open record
InitialFlowLocals(script) ==
    [flows |-> <<>>, current_flow |-> <<>>, overall_stats |-> InitialOverall(script)]

\* one "x_match = x_re.search(line); if x_match ...: ...; continue"
FlowRule(re, target, field, conv) ==
    [re |-> re, target |-> target, field |-> field, conv |-> conv]

\* the loop body after the flow header, top to bottom
FlowRules(script) ==
    IF script = WebRtc
    THEN << FlowRule("tx_re", "flow", "tx_packets", "int"),
            FlowRule("rx_re", "flow", "rx_packets", "int"),
            FlowRule("tx_bytes_re", "flow", "tx_bytes", "int"),
            FlowRule("rx_bytes_re", "flow", "rx_bytes", "int"),
            FlowRule("throughput_re", "flow", "throughput", "float"),
            FlowRule("delay_re", "flow", "delay", "float"),
            FlowRule("jitter_re", "flow", "jitter", "float"),
            FlowRule("loss_re", "flow", "loss", "float"),
            FlowRule("total_tx_match", "overall", "total_tx_packets", "int"),
            FlowRule("total_rx_match", "overall", "total_rx_packets", "int"),
            FlowRule("total_tx_bytes_match", "overall", "total_tx_bytes", "int"),
            FlowRule("total_rx_bytes_match", "overall", "total_rx_bytes", "int"),
            FlowRule("overall_loss_match", "overall", "overall_packet_loss", "float"),
            FlowRule("efficiency_re", "overall", "network_efficiency", "float") >>
    ELSE << FlowRule("tx_re", "flow", "tx_packets", "int"),
            FlowRule("rx_re", "flow", "rx_packets", "int"),
            FlowRule("throughput_re", "flow", "throughput", "float"),
            FlowRule("delay_re", "flow", "delay", "float"),
            FlowRule("loss_re", "flow", "loss", "float") >>

\* the condition of one "if": the match, and for a flow metric an open flow
\* ("if current_flow:", "if tx_match and current_flow")
FlowTaken(script, rule, loc, frags) ==
    /\ search(Pattern(script, rule.re), frags).found
    /\ rule.target = "flow" => loc.current_flow # <<>>

FlowOutcome(loc) == [raised |-> FALSE, loc |-> loc, exc |-> NoExc]

\* the body of the "if" that was taken, c being the converted group
FlowStore(rule, loc, c) ==
    IF c.raised THEN [raised |-> TRUE, loc |-> loc, exc |-> c.exc]
    ELSE IF rule.target = "flow"
    THEN FlowOutcome([loc EXCEPT !.current_flow[1][rule.field] = c.value])
    ELSE FlowOutcome([loc EXCEPT !.overall_stats[rule.field] = c.value])

\* the "if" at position i of the loop body runs on the line; 0: none does
FlowDispatch(script, loc, frags, i) ==
    IF i = 0 THEN FlowOutcome(loc)
    ELSE FlowStore(FlowRules(script)[i], loc,
                   Convert(FlowRules(script)[i].conv,
                           search(Pattern(script, FlowRules(script)[i].re), frags).group1))

\* the header opens no flow: the locals stay as they are
FlowReopened(script, loc, f) == loc

\* the body of "if flow_match": the open flow goes to flows, a new one opens
FlowOpened(script, loc, f) ==
    [loc EXCEPT !.flows = IF loc.current_flow # <<>>
                          THEN Append(@, loc.current_flow[1]) ELSE @,
                !.current_flow = <<NewFlow(script, f)>>]

\* one iteration of "for line in lines", h being flow_match
FlowLine(script, loc, frags, h) ==
    IF h # 0 THEN FlowOutcome(FlowOpened(script, loc, frags[h]))
    ELSE FlowDispatch(script, loc, frags,
                      Leftmost({i \in 1..Len(FlowRules(script)) :
                                   FlowTaken(script, FlowRules(script)[i], loc, frags)}))

FlowScanLine(script, loc, line) ==
    FlowLine(script, loc, Fragments(line), flow_match(Fragments(line)))

\* frame_size_bytes = int(params.get("packetSize", 1000)) * 2.5, for the
\* default packet size
FrameSizeBytes == <<2500, 1>>

Min(a, b) == IF Less(b, a) THEN b ELSE a

\* flow['frame_delivery_ratio'] of a flow that received packets
FrameDeliveryRatio(tx_bytes, rx_bytes) ==
    IF Less(Zero, Div(tx_bytes, FrameSizeBytes))
    THEN Min(Num(1), Div(Div(rx_bytes, FrameSizeBytes), Div(tx_bytes, FrameSizeBytes)))
    ELSE Zero

\* the loop over the flows after the scan: the two keys added to a WebRTC
\* flow of nada-webrtc.py
WithQuality(flow) ==
    IF ~flow.is_webrtc THEN flow
    ELSE IF Less(Zero, flow.rx_packets)
    THEN flow @@ [estimated_mos |-> Mos(flow.loss, flow.delay, flow.jitter),
                  frame_delivery_ratio |->
                      FrameDeliveryRatio(flow.tx_bytes, flow.rx_bytes)]
    ELSE flow @@ [estimated_mos |-> Num(1), frame_delivery_ratio |-> Zero]

\* "if current_flow: flows.append(current_flow)", then the quality loop
ClosedFlows(script, flows) ==
    IF script = WebRtc THEN [i \in 1..Len(flows) |-> WithQuality(flows[i])] ELSE flows

\* the flows parse_output returns
ReturnedFlows(script, loc) ==
    ClosedFlows(script, loc.flows \o loc.current_flow)

\* the transcripts: None (no output) or up to MaxFlowLines lines
FlowInit ==
    /\ variant = Simple
    /\ group = "rates"
    /\ output = [r \in Runs |-> NoOutput]
    /\ pc = "analyze"
    /\ scan = NoScan
    /\ result = [r \in Runs |-> Unparsed]
    /\ fault = NoFault
    /\ tables = NoTables
    /\ \E script \in FlowScripts, n \in 0..MaxFlowLines :
          \E lines \in [1..n -> FlowLines] :
              stat = [script |-> script, lines |-> lines, pos |-> 0, at |-> "call",
                      loc |-> InitialFlowLocals(script), flows |-> None,
                      overall |-> None, exc |-> NoExc]

\* "if not output: return None", else the locals are set up
FlowParseBegin ==
    /\ stat.at = "call"
    /\ stat' = IF stat.lines = <<>> THEN [stat EXCEPT !.at = "None"]
               ELSE [stat EXCEPT !.at = "scan", !.pos = 1]
    /\ UNCHANGED <<variant, group, output, pc, scan, result, fault, tables>>

\* what one iteration leaves, s being the outcome of the loop body
FlowScanned(s) ==
    IF s.raised THEN [stat EXCEPT !.at = "raised", !.exc = s.exc]
    ELSE [stat EXCEPT !.loc = s.loc, !.pos = @ + 1]

\* one iteration of the loop over the lines
FlowScanStep ==
    /\ stat.at = "scan"
    /\ stat.pos <= Len(stat.lines)
    /\ stat' = FlowScanned(FlowScanLine(stat.script, stat.loc, stat.lines[stat.pos]))
    /\ UNCHANGED <<variant, group, output, pc, scan, result, fault, tables>>

\* after the loop: the last flow is added and the flows are returned, with
\* overall_stats in nada-webrtc.py
FlowReturn ==
    /\ stat.at = "scan"
    /\ stat.pos > Len(stat.lines)
    /\ stat' = [stat EXCEPT !.at = "returned",
                            !.flows = ReturnedFlows(stat.script, stat.loc),
                            !.overall = stat.loc.overall_stats]
    /\ UNCHANGED <<variant, group, output, pc, scan, result, fault, tables>>

FlowNext == FlowParseBegin \/ FlowScanStep \/ FlowReturn

SpecFlows == FlowInit /\ [][FlowNext]_vars

-----------------------------------------------------------------------------

(* parse_output of mp-competing-sources.py.                                *)

MaxFrameLines == 4   \* lines of a transcript of mp-competing-sources

\* the lines a simulator of this script prints
FrameLines ==
    { "WebRTC Frame Statistics:", "Key frames sent: 10", "Key frames sent: 12",
      "Delta frames acked: 7", "Key frame loss: 2.5%", "Throughput: 10 Mbps" }

\* the transcripts: None (no output) or up to MaxFrameLines lines
CompetingInit ==
    /\ variant = Competing
    /\ group = "rates"
    /\ output = [r \in Runs |-> NoOutput]
    /\ pc = "analyze"
    /\ scan = NoScan
    /\ result = [r \in Runs |-> Unparsed]
    /\ fault = NoFault
    /\ tables = NoTables
    /\ \E n \in 0..MaxFrameLines :
          \E lines \in [1..n -> FrameLines] :
              stat = [lines |-> lines, pos |-> 0, at |-> "call",
                      loc |-> InitialLocals(Competing), stats |-> None,
                      warned |-> FALSE, exc |-> NoExc]

\* "if not output: return None", else the locals are set up
CompetingParseBegin ==
    /\ stat.at = "call"
    /\ stat' = IF stat.lines = <<>> THEN [stat EXCEPT !.at = "None"]
               ELSE [stat EXCEPT !.at = "scan", !.pos = 1]
    /\ UNCHANGED <<variant, group, output, pc, scan, result, fault, tables>>

\* what one iteration leaves, s being the outcome of the loop body
CompetingScanned(s) ==
    IF s.raised THEN [stat EXCEPT !.at = "raised", !.exc = s.exc]
    ELSE [stat EXCEPT !.loc = s.loc, !.pos = @ + 1]

\* one iteration of the loop over the lines
CompetingScanStep ==
    /\ stat.at = "scan"
    /\ stat.pos <= Len(stat.lines)
    /\ stat' = CompetingScanned(ScanLine(variant, 1, stat.loc, stat.lines[stat.pos]))
    /\ UNCHANGED <<variant, group, output, pc, scan, result, fault, tables>>

\* after the loop: the summary is printed, never the warning, and stats is
\* returned
CompetingReturn ==
    /\ stat.at = "scan"
    /\ stat.pos > Len(stat.lines)
    /\ stat' = [stat EXCEPT !.at = "returned", !.stats = stat.loc.stats,
                            !.warned = FALSE]
    /\ UNCHANGED <<variant, group, output, pc, scan, result, fault, tables>>

CompetingNext == CompetingParseBegin \/ CompetingScanStep \/ CompetingReturn

SpecCompeting == CompetingInit /\ [][CompetingNext]_vars

-----------------------------------------------------------------------------

(* Properties.                                                             *)

Treatment == result["treatment"]
Baseline == result["baseline"]
Analyzed == pc = "done" /\ tables.kind = "tables"
Rows == {tables.comparison[i] : i \in 1..Len(tables.comparison)}

C2_RaisesOnlyOnBadCapture ==
    LET bad(line) == \E i \in 1..Len(Fragments(line)) :
                         /\ Fragments(line)[i].text # <<>>
                         /\ ~FloatOk(Fragments(line)[i].text)
    IN  \A r \in Runs :
            /\ result[r].kind = "raised" =>
                   /\ result[r].exc.type = "ValueError"
                   /\ ~FloatOk(result[r].exc.text)
                   /\ bad(output[r].lines[fault.line])
                   /\ \A i \in 1..(fault.line - 1) : ~bad(output[r].lines[i])
            /\ result[r].kind = "stats" =>
                   \A i \in 1..Len(output[r].lines) : ~bad(output[r].lines[i])

C2_Witness ==
    /\ Treatment.kind = "raised"
    /\ Treatment.exc = ValueError(<<"1", ".", "2", ".", "3">>)
    /\ fault.line = 2

\* C2, as stated: parse_output never raises, whatever the lines are.
C2_NeverRaises == \A r \in Runs : result[r].kind # "raised"

\* C3: when a captured text is not a number, the error parse_output hands
\* to its caller identifies the offending line and the field, and differs
\* from the outcome of an empty transcript.
C3_ErrorIdentifiesLineAndField ==
    \A r \in Runs :
        result[r].kind = "raised" =>
            /\ result[r] # [Unparsed EXCEPT !.kind = "None"]
            /\ "line" \in DOMAIN result[r].exc /\ result[r].exc.line = fault.line
            /\ "field" \in DOMAIN result[r].exc /\ result[r].exc.field = fault.field

C5_MissingInputGivesEmptyTables ==
    /\ pc = "done"
    /\ Treatment.kind = "None" \/ Baseline.kind = "None"
    => tables.kind = "empty" /\ tables.comparison = <<>> /\ tables.path_df = <<>>

C5_Witness ==
    /\ pc = "done" /\ tables.kind = "empty"
    /\ Treatment.kind = "stats" /\ Treatment.stats.throughput # <<>>
    /\ Baseline.kind = "None"

\* C6: in every row of the comparison table whose baseline value is 0 or
\* whose treatment or baseline value is undefined, the improvement is NaN.
C6_NoBaselineNoImprovement ==
    Analyzed =>
        \A row \in Rows :
            row.baseline = Zero \/ row.baseline = NaN \/ row.treatment = NaN
            => row.improvement = NaN

C6_Witness ==
    /\ Analyzed
    /\ \E row \in Rows : /\ row.metric = "Throughput (Mbps)"
                         /\ row.treatment = Num(9) /\ row.baseline = Zero
                         /\ row.improvement = NaN
    /\ \E row \in Rows : /\ row.metric = "Throughput Stability (stddev)"
                         /\ row.treatment = Num(1) /\ row.baseline = Zero
    /\ \E row \in Rows : row.treatment = NaN

\* C7, within its reach: with a baseline other than 0 the improvement of
\* throughput and MOS is (treatment - baseline) / baseline * 100 and that of
\* delay, loss and jitter is (baseline - treatment) / baseline * 100; 10
\* against 8 gives 25 and 0.04 against 0.05 gives 20; with a baseline above
\* 0 the improvement is positive exactly when the treatment is better.
C7_ImprovementOverPositiveBaseline ==
    Analyzed =>
        \A row \in Rows :
            LET t == row.treatment
                b == row.baseline
                higher == row.metric \in {"Throughput (Mbps)", "Estimated MOS (1-5)"}
                better == IF higher THEN Less(b, t) ELSE Less(t, b)
            IN  b # Zero =>
                    /\ row.improvement =
                           IF higher THEN Mul(Div(Sub(t, b), b), Num(100))
                           ELSE Mul(Div(Sub(b, t), b), Num(100))
                    /\ higher /\ t = Num(10) /\ b = Num(8) => row.improvement = Num(25)
                    /\ ~higher /\ t = <<1, 25>> /\ b = <<1, 20>>
                           => row.improvement = Num(20)
                    /\ Less(Zero, b) => (Less(Zero, row.improvement) <=> better)

C7_Witness ==
    /\ Analyzed
    /\ \E row \in Rows : /\ row.metric = "Throughput (Mbps)"
                         /\ row.treatment = Num(10) /\ row.baseline = Num(8)
                         /\ row.improvement = Num(25)
    /\ \E row \in Rows : /\ row.metric = "Delay (seconds)"
                         /\ row.treatment = <<1, 25>> /\ row.baseline = <<1, 20>>
                         /\ row.improvement = Num(20)

\* C7, as stated: with a baseline other than 0 the improvement is positive
\* exactly when the treatment is better.
C7_PositiveExactlyWhenBetter ==
    Analyzed =>
        \A row \in Rows :
            LET t == row.treatment
                b == row.baseline
                higher == row.metric \in {"Throughput (Mbps)", "Estimated MOS (1-5)"}
                better == IF higher THEN Less(b, t) ELSE Less(t, b)
            IN  b # Zero => (Less(Zero, row.improvement) <=> better)

\* C8: for a record whose throughput sequence is empty, the comparison
\* table shows a throughput mean of 0 and a throughput standard deviation
\* of 0.
C8_EmptyThroughputGivesZero ==
    Analyzed =>
        \A row \in Rows :
            row.metric \in {"Throughput (Mbps)", "Throughput Stability (std)"} =>
                /\ Treatment.stats.throughput = <<>> => row.treatment = Zero
                /\ Baseline.stats.throughput = <<>> => row.baseline = Zero

C8_Witness ==
    /\ Analyzed
    /\ Treatment.stats.throughput = <<>> /\ Treatment.stats.delay # <<>>
    /\ Len(Baseline.stats.throughput) = 2
    /\ \E row \in Rows : /\ row.metric = "Throughput Stability (std)"
                         /\ row.treatment = Zero /\ row.baseline = Num(1)

\* C9: the mean the comparison table shows for a sample sequence that is
\* empty is 0, for energy_metrics and the TCP sequences as for the others.
C9_EmptySequenceMeansZero ==
    Analyzed =>
        \A row \in Rows :
            /\ row.metric = "Energy Efficiency (%)" =>
                   /\ Treatment.stats.energy_metrics = <<>> => row.treatment = Zero
                   /\ Baseline.stats.energy_metrics = <<>> => row.baseline = Zero
            /\ row.metric = "TCP Congestion Window (packets)" =>
                   /\ Treatment.stats.tcp_stats.cwnd = <<>> => row.treatment = Zero
                   /\ Baseline.stats.tcp_stats.cwnd = <<>> => row.baseline = Zero
            /\ row.metric = "Throughput (Mbps)" =>
                   /\ Treatment.stats.throughput = <<>> => row.treatment = Zero
                   /\ Baseline.stats.throughput = <<>> => row.baseline = Zero

\* C10: a line that carries a protocol-qualified loss adds nothing to the
\* generic loss sequence: that sequence has one entry per line with an
\* unqualified "Packet loss: X%" and no qualified loss.
C10_QualifiedLossNotGeneric ==
    LET qualified(line) ==
            \E i \in 1..Len(Fragments(line)) :
                /\ Fragments(line)[i].qual \in {"NADA ", "WebRTC ", "TCP "}
                /\ Fragments(line)[i].label = "packet loss: "
        generic(line) ==
            \E i \in 1..Len(Fragments(line)) :
                Fragments(line)[i].qual = "" /\ Fragments(line)[i].label = "Packet loss: "
    IN  \A r \in Runs :
            result[r].kind = "stats" =>
                Len(result[r].stats.loss) =
                    Cardinality({i \in 1..Len(output[r].lines) :
                                    /\ generic(output[r].lines[i])
                                    /\ ~qualified(output[r].lines[i])})

-----------------------------------------------------------------------------
(* Path records during a parse.                                            *)

\* the id of a "Path N:" header line, 0 for any other line
HeaderId(line) ==
    IF /\ Fragments(line) # <<>>
       /\ Fragments(line)[1].qual = "" /\ Fragments(line)[1].label = "Path "
    THEN DigitsValue(Fragments(line)[1].text, 0) ELSE 0

\* the id of the last header among the first n lines, 0 when there is none
RECURSIVE HeaderBefore(_, _)
HeaderBefore(lines, n) ==
    IF n = 0 THEN 0
    ELSE IF HeaderId(lines[n]) # 0 THEN HeaderId(lines[n])
    ELSE HeaderBefore(lines, n - 1)

\* the lines among the first n that carry the label under the header of id
SamplesUnder(lines, n, id, label) ==
    {j \in 1..n : /\ Fragments(lines[j]) # <<>>
                  /\ Fragments(lines[j])[1].label = label
                  /\ HeaderBefore(lines, j - 1) = id}

\* one record per id seen in a header of the first n lines, holding every
\* rate and rtt sample printed under a header of that id
OneRecordPerHeader(paths, lines, n) ==
    /\ \A i, j \in 1..Len(paths) : paths[i].id = paths[j].id => i = j
    /\ {paths[i].id : i \in 1..Len(paths)} = {HeaderId(lines[j]) : j \in 1..n} \ {0}
    /\ \A i \in 1..Len(paths) :
          /\ Len(paths[i].rate) = Cardinality(SamplesUnder(lines, n, paths[i].id, "Rate: "))
          /\ Len(paths[i].rtt) = Cardinality(SamplesUnder(lines, n, paths[i].id, "RTT: "))

\* C11: at every point of a parse and in the record it returns there is
\* exactly one path record per id seen in a "Path N:" header so far (so the
\* set of ids only grows), and a header with an id already seen reuses the
\* record: it holds the rate and rtt samples of all the blocks of that id.
C11_OneRecordPerPathId ==
    /\ pc = "scanning" =>
           OneRecordPerHeader(scan.loc.stats.paths, output[scan.run].lines, scan.pos - 1)
    /\ \A r \in Runs :
           result[r].kind = "stats" =>
               OneRecordPerHeader(result[r].stats.paths, output[r].lines,
                                  Len(output[r].lines))

C11_Witness ==
    /\ Treatment.kind = "stats"
    /\ Cardinality({j \in 1..Len(output["treatment"].lines) :
                       output["treatment"].lines[j] = "Path 1:"}) = 2
    /\ Len(Treatment.stats.paths) = 1
    /\ Treatment.stats.paths[1].id = 1
    /\ Len(Treatment.stats.paths[1].rate) = 2

\* C12: for every pair of records parse_output returns for non-empty
\* transcripts (with or without buffer, TCP or path lines, with zero
\* denominators) analyze_results ends normally and returns its tables.
C12_AnalyzeNeverRaises ==
    /\ pc = "done"
    /\ Treatment.kind = "stats" /\ Baseline.kind = "stats"
    => tables.kind = "tables" /\ tables.exc = NoExc

\* C13: analyze_results changes neither record: after the call the
\* treatment record and the baseline record (every path record of the
\* treatment included) equal, field for field, their values before it.
C13_AnalyzeLeavesRecordsAlone ==
    [][pc = "analyze" /\ pc' = "done" => result' = result]_vars

\* the pattern of the rule matches some line of the transcript
MatchesSomeLine(v, rule, lines) ==
    \E j \in 1..Len(lines) : search(Pattern(v, rule.re), Fragments(lines[j])).found

\* C14: in the record parse_output returns for a non-empty transcript,
\* every scalar counter whose pattern matched no line is 0 and every
\* sequence whose pattern matched no line is empty; none is left null.
C14_UnmatchedFieldsDefault ==
    \A r \in Runs :
        result[r].kind = "stats" =>
            \A loop \in 1..Loops(variant) :
                \A i \in 1..Len(Rules(variant, loop)) :
                    LET rule == Rules(variant, loop)[i]
                    IN  ~MatchesSomeLine(variant, rule, output[r].lines) =>
                            /\ rule.act = "set" => result[r].stats[rule.field] = Zero
                            /\ rule.act = "append" => result[r].stats[rule.field] = <<>>
                            /\ rule.act = "set_in" =>
                                   result[r].stats[rule.sub][rule.field] = Zero
                            /\ rule.act = "append_in" =>
                                   result[r].stats[rule.sub][rule.field] = <<>>

\* C15: the path table has exactly one row per path id of the treatment
\* record, and its rows are in ascending order of path id, whatever the
\* order in which the "Path N:" headers first appeared.
C15_PathTableAscending ==
    Analyzed =>
        /\ Len(tables.path_df) = Len(Treatment.stats.paths)
        /\ {tables.path_df[i].path : i \in 1..Len(tables.path_df)} =
               {Treatment.stats.paths[i].id : i \in 1..Len(Treatment.stats.paths)}
        /\ \A i, j \in 1..Len(tables.path_df) :
               i < j => tables.path_df[i].path < tables.path_df[j].path

CoreMetrics ==
    <<"Throughput (Mbps)", "Delay (seconds)", "Loss (%)", "Jitter (seconds)",
      "Estimated MOS (1-5)">>

\* C16: in every comparison table the first five rows are throughput,
\* delay, loss, jitter and MOS, in that order, and every extension row
\* (buffer, TCP, path utilization, efficiency) comes after them.
C16_CoreRowsFirst ==
    Analyzed =>
        /\ Len(tables.comparison) >= 5
        /\ \A i \in 1..5 : tables.comparison[i].metric = CoreMetrics[i]
        /\ \A i \in 6..Len(tables.comparison) :
               \A k \in 1..5 : tables.comparison[i].metric # CoreMetrics[k]

-----------------------------------------------------------------------------
(* The MOS estimate.                                                       *)

Scored == stat # NoStat /\ stat.mos # None
AbsDiff(a, b) == IF Less(a, b) THEN Sub(b, a) ELSE Sub(a, b)

\* C17, as the code has it: for a mean loss of 1.2 %, a mean delay of
\* 0.045 s and a mean jitter of 0.008 s the factors are 0.94, 0.955 and
\* 0.84, and mos = 1 + 4 * 0.94 * 0.955 * 0.84 = 4.016272, about 4.016.
C17_MosExample ==
    /\ Scored /\ stat.script = Simple
    /\ stat.loss = <<6, 5>> /\ stat.delay = <<9, 200>> /\ stat.jitter = <<1, 125>>
    => /\ stat.loss_factor = <<47, 50>>
       /\ stat.delay_factor = <<191, 200>>
       /\ stat.jitter_factor = <<21, 25>>
       /\ stat.mos = Add(Num(1), Mul(Num(4), Mul(<<47, 50>>,
                                                 Mul(<<191, 200>>, <<21, 25>>))))
       /\ stat.mos = Frac(4016272, 1000000)
       /\ Less(AbsDiff(stat.mos, Frac(4016, 1000)), Frac(1, 2000))

C17_Witness ==
    /\ Scored /\ stat.script = Simple
    /\ stat.loss = <<6, 5>> /\ stat.delay = <<9, 200>> /\ stat.jitter = <<1, 125>>
    /\ stat.loss_factor = <<47, 50>>

\* C17, as stated: for these means the score is about 4.014 (4.014 to
\* three decimals).
C17_MosAbout4014 ==
    /\ Scored /\ stat.script = Simple
    /\ stat.loss = <<6, 5>> /\ stat.delay = <<9, 200>> /\ stat.jitter = <<1, 125>>
    => Less(AbsDiff(stat.mos, Frac(4014, 1000)), Frac(1, 2000))

AtMost(a, b) == ~Less(b, a)
Unusable == \/ AtMost(Num(20), stat.loss)
            \/ AtMost(Num(1), stat.delay)
            \/ AtMost(<<1, 20>>, stat.jitter)
AllZero == stat.loss = Zero /\ stat.delay = Zero /\ stat.jitter = Zero

\* C18, as the code has it: for non-negative mean loss, delay and jitter
\* the estimated MOS lies in [1, 5] and is 1 whenever loss >= 20,
\* delay >= 1 or jitter >= 0.05; where the formula is applied it is 5
\* exactly when loss, delay and jitter are all 0, and a nada-webrtc flow
\* that received no packet scores 1.0 whatever its loss, delay and jitter.
C18_MosRange ==
    Scored =>
        /\ AtMost(Num(1), stat.mos) /\ AtMost(stat.mos, Num(5))
        /\ Unusable => stat.mos = Num(1)
        /\ Estimated(stat.script, stat.rx_packets) =>
               (stat.mos = Num(5) <=> AllZero)
        /\ ~Estimated(stat.script, stat.rx_packets) => stat.mos = Num(1)

C18_Witness ==
    /\ Scored /\ Estimated(stat.script, stat.rx_packets)
    /\ stat.loss = Num(25) /\ stat.delay = Zero /\ stat.jitter = Zero
    /\ stat.loss_factor = Zero
    /\ stat.mos = Num(1)

\* C18, as stated: the estimated MOS lies in [1, 5], is 1 whenever
\* loss >= 20, delay >= 1 or jitter >= 0.05, and is 5 exactly when loss,
\* delay and jitter are all 0.
C18_MosFiveIffAllZero ==
    Scored =>
        /\ AtMost(Num(1), stat.mos) /\ AtMost(stat.mos, Num(5))
        /\ Unusable => stat.mos = Num(1)
        /\ stat.mos = Num(5) <=> AllZero

-----------------------------------------------------------------------------
(* Jain's fairness index.                                                  *)

Indexed == stat # NoStat /\ stat.at = "next" /\ Len(stat.throughputs) > 1
Fairness == stat.fairness_data[1]
IsNumber(x) == x # NaN /\ x # Inf
AllEqual(x) == \A i \in 1..Len(x) : x[i] = x[1]

\* C19: Jain's fairness index, computed only for groups of n >= 2 flows,
\* lies in [1/n, 1] for every group of non-negative throughputs, is 1 when
\* all throughputs are equal and 0.5 on [10, 0], and is a defined value
\* when every throughput of the group is 0.
C19_FairnessInRange ==
    /\ stat # NoStat /\ stat.at = "next" /\ Len(stat.throughputs) = 1
       => stat.fairness_data = <<>>
    /\ Indexed =>
        /\ Len(stat.fairness_data) = 1
        /\ IsNumber(Fairness)
        /\ AtMost(Frac(1, Len(stat.throughputs)), Fairness)
        /\ AtMost(Fairness, Num(1))
        /\ AllEqual(stat.throughputs) => Fairness = Num(1)
        /\ stat.throughputs = <<Num(10), Zero>> => Fairness = <<1, 2>>

\* the same statement for the groups in which some flow has a throughput
\* above 0; on the others the index is nan
FairnessOfNonZeroGroup ==
    Indexed =>
        IF \E i \in 1..Len(stat.throughputs) : stat.throughputs[i] # Zero
        THEN /\ IsNumber(Fairness)
             /\ AtMost(Frac(1, Len(stat.throughputs)), Fairness)
             /\ AtMost(Fairness, Num(1))
             /\ AllEqual(stat.throughputs) => Fairness = Num(1)
             /\ stat.throughputs = <<Num(10), Zero>> => Fairness = <<1, 2>>
        ELSE Fairness = NaN

-----------------------------------------------------------------------------
(* The fields one line changes.                                            *)

\* the fields of stats that are themselves dicts of fields
Nested(stats) == {"tcp_stats", "buffer_stats"} \cap DOMAIN stats

\* the fields whose value differs between two states of stats
ChangedFields(old, new) ==
    {<<k>> : k \in {k \in DOMAIN old \ Nested(old) : old[k] # new[k]}}
    \cup UNION {{<<k, f>> : f \in {f \in DOMAIN old[k] : old[k][f] # new[k][f]}} :
                    k \in Nested(old)}

ChangedBy(loc, s) == IF s.raised THEN {} ELSE ChangedFields(loc.stats, s.loc.stats)

\* the fields the line changes in one or another of the loops over the lines
Touched(v, loc, line) ==
    UNION {ChangedBy(loc, ScanLine(v, loop, loc, line)) : loop \in 1..Loops(v)}

\* C20: each transcript line changes at most one field of the record: the
\* iteration that scans it changes at most one, and so do all the loops
\* over the lines together.
C20_OneFieldPerLine ==
    [][ScanStep /\ pc' = "scanning"
       => /\ Cardinality(ChangedFields(scan.loc.stats, scan'.loc.stats)) <= 1
          /\ Cardinality(Touched(variant, scan.loc,
                                 output[scan.run].lines[scan.pos])) <= 1]_vars

-----------------------------------------------------------------------------
(* The lines printed under a path header.                                  *)

RECURSIVE Ascending(_)
\* the elements of a set of line numbers, lowest first
Ascending(S) ==
    IF S = {} THEN <<>>
    ELSE LET m == CHOOSE x \in S : \A y \in S : x <= y
         IN  <<m>> \o Ascending(S \ {m})

\* the number a line prints, as float() or int() reads it
Printed(line) == FloatValue(Fragments(line)[1].text)

\* the numbers of the lines of a set, in transcript order
PrintedIn(lines, S) == [k \in 1..Cardinality(S) |-> Printed(lines[Ascending(S)[k]])]

\* the number of the last line of a set, 0 when the set is empty
LastPrinted(lines, S) ==
    IF S = {} THEN Zero ELSE Printed(lines[CHOOSE x \in S : \A y \in S : y <= x])

\* a path record holds what the lines under the headers of its id print
RecordOfLines(p, lines) ==
    /\ p.rate = PrintedIn(lines, SamplesUnder(lines, Len(lines), p.id, "Rate: "))
    /\ p.rtt = PrintedIn(lines, SamplesUnder(lines, Len(lines), p.id, "RTT: "))
    /\ p.sent = LastPrinted(lines, SamplesUnder(lines, Len(lines), p.id, "Packets sent: "))
    /\ p.acked = LastPrinted(lines, SamplesUnder(lines, Len(lines), p.id, "Packets acked: "))
    /\ p.weight = LastPrinted(lines, SamplesUnder(lines, Len(lines), p.id, "Weight: "))

\* C21: in the record of a parse every path holds, for sent, acked and
\* weight, the value of the last line printed for it while it was current
\* (0 when there is none) and, for rate and rtt, the values of all such
\* lines in transcript order; a per-path line before any path header
\* changes no path record.
C21_PathLinesOverwriteOrAppend ==
    /\ \A r \in Runs :
           result[r].kind = "stats" =>
               \A i \in 1..Len(result[r].stats.paths) :
                   RecordOfLines(result[r].stats.paths[i], output[r].lines)
    /\ pc = "scanning" /\ scan.loc.current_path = None
           => scan.loc.stats.paths = <<>>

C21_Witness ==
    /\ Treatment.kind = "stats"
    /\ output["treatment"].lines =
           <<"Path 1:", "Weight: 0.6", "TCP RTT: 30 ms",
             "TCP RTT: 30 ms", "Weight: 0.2", "RTT: 20 ms">>
    /\ Treatment.stats.paths[1].weight = <<1, 5>>
    /\ Treatment.stats.paths[1].rtt = <<Num(30), Num(30), Num(20)>>

-----------------------------------------------------------------------------
(* The rows appended for the buffer metrics.                               *)

\* C23: in the 'Buffer Stalls' row, when the baseline stall count is not 0,
\* the improvement is (baseline stalls - treatment stalls) / baseline
\* stalls * 100, computed from the stall counts of the two runs.
C23_StallsRowFromStalls ==
    /\ Analyzed /\ variant = TcpSimple
    /\ Treatment.stats.buffer_stalls # None
    /\ Baseline.stats.buffer_stalls # None
    /\ Baseline.stats.buffer_stalls # Zero
    => \A i \in 1..Len(tables.comparison) :
           tables.comparison[i].metric = "Buffer Stalls" =>
               tables.comparison[i].improvement =
                   Mul(Div(Sub(Baseline.stats.buffer_stalls,
                               Treatment.stats.buffer_stalls),
                           Baseline.stats.buffer_stalls), Num(100))

-----------------------------------------------------------------------------
(* The warning of parse_output.                                            *)

\* C24: parse_output prints its "No metrics were parsed" warning exactly
\* when the throughput, delay and loss lists are all empty after the scan,
\* and the record is returned all the same.
C24_WarnedIffNoSamples ==
    \A r \in Runs :
        result[r].kind = "stats" =>
            (result[r].warned <=> /\ result[r].stats.throughput = <<>>
                                  /\ result[r].stats.delay = <<>>
                                  /\ result[r].stats.loss = <<>>)

-----------------------------------------------------------------------------
(* The normalised weights.                                                 *)

Weights(paths) == [i \in 1..Len(paths) |-> paths[i].weight]
NormWeights(paths) == [i \in 1..Len(paths) |-> paths[i].norm_weight]

\* C25: after analyze_results each path's norm_weight is its weight
\* divided by the sum of all path weights when that sum is above 0, and 0
\* for every path when the sum is 0; so each norm_weight is in [0, 1] and
\* they sum to 1 whenever the total weight is positive.
C25_NormWeights ==
    Analyzed /\ variant = TcpMp =>
        /\ \A i \in 1..Len(Treatment.stats.paths) :
               /\ Treatment.stats.paths[i].norm_weight =
                      IF Less(Zero, Sum(Weights(Treatment.stats.paths)))
                      THEN Div(Treatment.stats.paths[i].weight,
                               Sum(Weights(Treatment.stats.paths)))
                      ELSE Zero
               /\ AtMost(Zero, Treatment.stats.paths[i].norm_weight)
               /\ AtMost(Treatment.stats.paths[i].norm_weight, Num(1))
        /\ Less(Zero, Sum(Weights(Treatment.stats.paths)))
               => Sum(NormWeights(Treatment.stats.paths)) = Num(1)

C25_Witness ==
    /\ Analyzed /\ variant = TcpMp
    /\ Len(Treatment.stats.paths) = 2
    /\ Treatment.stats.paths[1].weight = <<3, 5>>
    /\ Treatment.stats.paths[2].weight = <<1, 5>>
    /\ Treatment.stats.paths[1].norm_weight = <<3, 4>>
    /\ Treatment.stats.paths[2].norm_weight = <<1, 4>>

-----------------------------------------------------------------------------
(* The current path.                                                       *)

\* C26: at every step of the scan of a multipath transcript, current_path,
\* when it is not None, is a key of stats['paths'], and once set it is never
\* reset to None: a per-path write always finds its record.
C26_CurrentPathHasRecord ==
    [][ScanStep /\ pc' = "scanning"
       => /\ scan.loc.current_path # None => scan'.loc.current_path # None
          /\ scan'.loc.current_path # None =>
                 scan'.loc.current_path[1] \in PathIds(scan'.loc.stats.paths)]_vars

C26_Witness ==
    /\ pc = "scanning" /\ variant = TcpMp
    /\ scan.pos = 4
    /\ output[scan.run].lines[1] = "Path 1:"
    /\ output[scan.run].lines[3] = "TCP RTT: 30 ms"
    /\ scan.loc.current_path = <<1>>
    /\ PathIds(scan.loc.stats.paths) = {1}

-----------------------------------------------------------------------------
(* "TCP RTT" lines in the TCP multipath parser.                            *)

\* the line reads "TCP RTT: <x> ms"
TcpRttLine(line) ==
    /\ Len(Fragments(line)) = 1
    /\ Fragments(line)[1].qual = "TCP " /\ Fragments(line)[1].label = "RTT: "

CurrentRecord(loc) == loc.stats.paths[PathIndex(loc.stats.paths, loc.current_path[1])]

-----------------------------------------------------------------------------
(* The 'Estimated MOS' row.                                                *)

MosRow == tables.comparison[5]

\* C30: for every pair of records the baseline MOS is at least 1, so the
\* improvement of the 'Estimated MOS' row is a number, never nan:
\* (treatment - baseline) / baseline * 100; a baseline without loss, delay
\* and jitter samples has MOS 5 and is compared like any other.
C30_MosRowDefined ==
    Analyzed /\ variant \in {Simple, Mp} =>
        /\ MosRow.metric = "Estimated MOS (1-5)"
        /\ AtMost(Num(1), MosRow.baseline)
        /\ AtMost(Num(1), MosRow.treatment)
        /\ MosRow.improvement # NaN
        /\ MosRow.improvement =
               Mul(Div(Sub(MosRow.treatment, MosRow.baseline), MosRow.baseline),
                   Num(100))
        /\ /\ Baseline.stats.loss = <<>>
           /\ Baseline.stats.delay = <<>>
           /\ Baseline.stats.jitter = <<>>
           => MosRow.baseline = Num(5)

C30_Witness ==
    /\ Analyzed /\ variant = Simple
    /\ Baseline.stats.throughput # <<>>
    /\ Baseline.stats.loss = <<>> /\ Baseline.stats.delay = <<>>
    /\ Baseline.stats.jitter = <<>>
    /\ Treatment.stats.delay = <<<<1, 25>>>>
    /\ MosRow.baseline = Num(5)
    /\ MosRow.treatment = <<121, 25>>
    /\ MosRow.improvement = <<-16, 5>>

-----------------------------------------------------------------------------
(* The flow-based parsers.                                                 *)

\* the overall counter a "Total ..." line names, "" for any other line
TotalCounter(line) ==
    IF Len(Fragments(line)) # 1 \/ Fragments(line)[1].qual # "Total " THEN ""
    ELSE CASE Fragments(line)[1].label = "Tx Packets: " -> "total_tx_packets"
           [] Fragments(line)[1].label = "Rx Packets: " -> "total_rx_packets"
           [] Fragments(line)[1].label = "Tx Bytes: " -> "total_tx_bytes"
           [] Fragments(line)[1].label = "Rx Bytes: " -> "total_rx_bytes"
           [] OTHER -> ""

\* C22: in nada-webrtc.py a line "Total Tx Packets: N" (or Rx Packets, Tx
\* Bytes, Rx Bytes) sets the corresponding counter of overall_stats to N
\* whenever it is scanned, with or without a flow header before it, and
\* leaves every flow record as it was.
C22_TotalsSetOverallCounters ==
    [][/\ FlowScanStep /\ stat.script = WebRtc
       /\ TotalCounter(stat.lines[stat.pos]) # ""
       => /\ stat'.at = "scan"
          /\ stat'.loc.overall_stats[TotalCounter(stat.lines[stat.pos])] =
                 Printed(stat.lines[stat.pos])
          /\ stat'.loc.flows = stat.loc.flows
          /\ stat'.loc.current_flow = stat.loc.current_flow]_vars

\* the positions of the flow headers among the first n lines
HeadersIn(lines, n) == {j \in 1..n : flow_match(Fragments(lines[j])) # 0}

\* the flow id of a header line
HeaderFlowId(line) == DigitsValue(Fragments(line)[flow_match(Fragments(line))].text, 0)

\* one record per header of the first n lines, in header order
OneFlowPerHeader(flows, lines, n) ==
    /\ Len(flows) = Cardinality(HeadersIn(lines, n))
    /\ \A k \in 1..Len(flows) :
           flows[k].id = HeaderFlowId(lines[Ascending(HeadersIn(lines, n))[k]])

\* a line that prints one per-flow metric and nothing else
MetricLine(script, line) ==
    /\ Len(Fragments(line)) = 1 /\ Fragments(line)[1].qual = ""
    /\ \E i \in 1..Len(FlowRules(script)) :
           /\ FlowRules(script)[i].target = "flow"
           /\ Matches(Pattern(script, FlowRules(script)[i].re), Fragments(line)[1])

\* C28: in the flow-based parsers the flows, closed and open, are one per
\* "Flow N (a -> b)" header scanned so far, in header order, also when two
\* headers carry the same id, and so is the list returned; a line that is
\* not a header leaves the closed flows as they are, and a metric line
\* before the first header changes nothing.
C28_OneFlowPerHeader ==
    [][FlowNext
       => /\ stat'.at = "scan" =>
                 OneFlowPerHeader(stat'.loc.flows \o stat'.loc.current_flow,
                                  stat.lines, stat'.pos - 1)
          /\ stat'.at = "returned" =>
                 OneFlowPerHeader(stat'.flows, stat.lines, Len(stat.lines))
          /\ /\ stat.at = "scan" /\ stat'.at = "scan"
             /\ flow_match(Fragments(stat.lines[stat.pos])) = 0
             => /\ stat'.loc.flows = stat.loc.flows
                /\ Len(stat'.loc.current_flow) = Len(stat.loc.current_flow)
                /\ /\ stat.loc.current_flow = <<>>
                   /\ MetricLine(stat.script, stat.lines[stat.pos])
                   => stat'.loc = stat.loc]_vars

C28_Witness ==
    /\ stat # NoStat /\ stat.at = "returned"
    /\ stat.lines = <<"Flow 1 (10.1.1.1 -> 10.1.2.2)",
                      "Flow 1 (10.1.1.1 -> 10.1.2.2)", "Tx Packets: 100">>
    /\ Len(stat.flows) = 2
    /\ stat.flows[1].id = 1 /\ stat.flows[1].tx_packets = Zero
    /\ stat.flows[2].id = 1 /\ stat.flows[2].tx_packets = Num(100)

-----------------------------------------------------------------------------
(* The frame statistics of mp-competing-sources.                           *)

\* the counter a frame line names, "" for any other line
FrameCounter(line) ==
    IF Len(Fragments(line)) # 1 \/ Fragments(line)[1].qual # "" THEN ""
    ELSE CASE Fragments(line)[1].label = "Key frames sent: " -> "key_frames_sent"
           [] Fragments(line)[1].label = "Key frames acked: " -> "key_frames_acked"
           [] Fragments(line)[1].label = "Key frame loss: " -> "key_frame_loss"
           [] Fragments(line)[1].label = "Delta frames sent: " -> "delta_frames_sent"
           [] Fragments(line)[1].label = "Delta frames acked: " -> "delta_frames_acked"
           [] Fragments(line)[1].label = "Delta frame loss: " -> "delta_frame_loss"
           [] OTHER -> ""

\* the "WebRTC Frame Statistics:" headers among the first n lines
FrameHeadersIn(lines, n) == {j \in 1..n : lines[j] = "WebRTC Frame Statistics:"}

\* C29: in mp-competing-sources the key-frame and delta-frame counters stay
\* 0 on every frame line scanned before the first "WebRTC Frame
\* Statistics:" header; in_frame_stats is set by that header and never
\* cleared, and every frame line after it overwrites its counter.
C29_FrameCountersAfterHeader ==
    [][CompetingScanStep /\ stat'.at = "scan"
       => /\ stat.loc.in_frame_stats => stat'.loc.in_frame_stats
          /\ stat'.loc.in_frame_stats <=> FrameHeadersIn(stat.lines, stat.pos) # {}
          /\ ~stat'.loc.in_frame_stats =>
                 stat'.loc.stats.webrtc = InitialStats(Competing).webrtc
          /\ /\ stat.loc.in_frame_stats
             /\ FrameCounter(stat.lines[stat.pos]) # ""
             => stat'.loc.stats.webrtc =
                    [stat.loc.stats.webrtc
                        EXCEPT ![FrameCounter(stat.lines[stat.pos])] =
                                   Printed(stat.lines[stat.pos])]]_vars

C29_Witness ==
    /\ stat # NoStat /\ variant = Competing /\ stat.at = "returned"
    /\ stat.lines = <<"Key frames sent: 10", "WebRTC Frame Statistics:",
                      "Key frames sent: 10", "Key frames sent: 12">>
    /\ stat.stats.webrtc.key_frames_sent = Num(12)

====
